---- MODULE Spec2Model ----
(***************************************************************************)
(* A model of the codex-code-reviewer diff pipeline:                       *)
(*   - runWithSchema      (src/src/utils/codex-runner.ts)                  *)
(*   - the thread cache   (src/src/utils/thread-cache.ts)                  *)
(*   - fingerprints       (src/src/utils/fingerprint.ts)                   *)
(*   - analyzeDiff, checkQualityGate, loadBaseline, writeOutputs           *)
(*                        (src/unnamed/part_003, the diff command)         *)
(*                                                                         *)
(* JavaScript strings are sequences of tokens (a token is a word, a blank  *)
(* or a punctuation mark), so that trimming, case folding and fence        *)
(* stripping are computed and not assumed.  A JavaScript value is a record *)
(* [k |-> kind, s |-> string]; kind "undefined" is the absent value.       *)
(***************************************************************************)
EXTENDS Integers, Sequences, FiniteSets, TLC

VARIABLES
  \* ---- runWithSchema (codex-runner.ts) ----
  rpc,            \* position in runWithSchema
  answer,         \* the object the agent reports in this run (environment)
  hasSignal,      \* options.abortSignal was supplied
  extAborted,     \* options.abortSignal.aborted
  timer,          \* "unarmed" | "armed" | "fired" | "cleared"  (timeoutId)
  aborted,        \* abortController.signal.aborted
  evLimit,        \* events a stream yields at most (bound of the model)
  nEvents,        \* events the stream has yielded in the current exchange
  stalled,        \* the stream of the current exchange yields nothing more
  messages,       \* messages / repairMessages of the current exchange
  usage,          \* usage
  errorMessage,   \* errorMessage
  exchanges,      \* number of thread.runStreamed calls of this run
  outcome,        \* what runWithSchema returned or threw
  firstFailure,   \* history: message of the first failure event received
  parse1,         \* history: result of JSON.parse at line 86
  parse2,         \* history: result of JSON.parse at line 103
  \* ---- checkQualityGate applied to drawn inputs ----
  gIssues,        \* issues
  gOptions,       \* options (failOn)
  gDone,          \* the function has returned
  gResult,        \* its result
  \* ---- the thread cache (thread-cache.ts) ----
  threadsFile,    \* THREAD_CACHE_FILE: whether it exists, and the cache in it
  now,            \* Date.now(), in milliseconds
  cp,             \* per run: where it is in a cache function, and its locals
  \* ---- analyzeDiff (the diff command, part_003) ----
  pc,             \* the statement analyzeDiff is at
  options,        \* options: DiffOptions
  loc,            \* the locals of analyzeDiff
  baselineFile,   \* the file options.baseline names
  written,        \* the report files written, in order
  exitCode,       \* the exit code of the process, -1 while it runs
  hist,           \* history: what has happened in this run
  \* ---- a pure function applied to drawn arguments ----
  callArgs,       \* the arguments
  callResult,     \* what the function returned
  called          \* the function has returned

runVars == <<rpc, answer, hasSignal, extAborted, timer, aborted, evLimit, nEvents,
             stalled, messages, usage, errorMessage, exchanges, outcome, firstFailure, parse1, parse2>>

gateVars == <<gIssues, gOptions, gDone, gResult>>

cacheVars == <<threadsFile, now, cp>>

pipeVars == <<pc, options, loc, baselineFile, written, exitCode, hist>>

callVars == <<callArgs, callResult, called>>

\* the variables of the pure functions checked on their own
pureVars == <<gateVars, callVars>>

vars == <<runVars, gateVars, cacheVars, pipeVars, callVars>>

otherThanRun   == <<gateVars, cacheVars, pipeVars, callVars>>
otherThanGate  == <<runVars, cacheVars, pipeVars, callVars>>
otherThanCache == <<runVars, gateVars, pipeVars, callVars>>
otherThanCall  == <<runVars, gateVars, cacheVars, pipeVars>>

----------------------------------------------------------------------------
(* Bounds of the model *)

\* events one exchange's stream yields before it ends, stalls or throws
MaxEvents == 3

\* length of the issue lists checkQualityGate is applied to
MaxGateIssues == 2

\* length of the issue lists filterNewIssues is applied to
MaxFilterIssues == 3

\* number of fields in which the two issues given to computeFingerprint differ
MaxChanged == 2

\* length of the issue lists convertToSARIF is applied to
MaxSarifIssues == 2

\* number of lines of the diffs chunkDiffByFile is applied to
MaxDiffLines == 4

\* the clock is observed within this many milliseconds of the 24 hour mark
Slack == 1

\* events one exchange's stream yields within a run of analyzeDiff
MaxPipeEvents == 1

----------------------------------------------------------------------------
(* JavaScript values *)

Str(s)    == [k |-> "string", s |-> s]
Undefined == [k |-> "undefined", s |-> <<>>]
JNull     == [k |-> "null", s |-> <<>>]
Num(n)    == [k |-> "number", s |-> <<>>, n |-> n]
JNumber   == Num(42)
JTrue     == [k |-> "boolean", s |-> <<"true">>]
JFalse    == [k |-> "boolean", s |-> <<"false">>]

IsString(v)  == v.k = "string"
IsBoolean(v) == v.k = "boolean"
\* JavaScript truthiness
Truthy(v) == \/ v.k = "string" /\ v.s # <<>>
             \/ v.k = "number" /\ v.n # 0
             \/ v.k \in {"object", "array"}
             \/ v = JTrue

IsBlank(tok) == tok \in {" ", "\n", "\t"}

RECURSIVE TrimStart(_)
TrimStart(s) == IF s # <<>> /\ IsBlank(Head(s)) THEN TrimStart(Tail(s)) ELSE s

RECURSIVE TrimEnd(_)
TrimEnd(s) ==
  IF s # <<>> /\ IsBlank(s[Len(s)]) THEN TrimEnd(SubSeq(s, 1, Len(s) - 1)) ELSE s

\* String.prototype.trim
Trim(s) == TrimEnd(TrimStart(s))

\* Array.prototype.join("\n") on an array of strings
RECURSIVE JoinNL(_)
JoinNL(arr) ==
  IF arr = <<>> THEN <<>>
  ELSE IF Len(arr) = 1 THEN arr[1]
  ELSE arr[1] \o <<"\n">> \o JoinNL(Tail(arr))

----------------------------------------------------------------------------
(* The response schema of the diff command (part_003 lines 12-28) *)

Arr(items) == [k |-> "array", items |-> items]

MkIssue(file, range, type, severity, text) ==
  [k |-> "object", file |-> file, line_range |-> range, type |-> type,
   severity |-> severity, issue |-> text,
   why_problem |-> Str(<<"why">>), fix |-> Str(<<"fix">>)]

MkAnalysis(shouldMerge, issues) ==
  [k |-> "object", overall_assessment |-> Str(<<"summary">>),
   should_merge |-> shouldMerge, issues |-> issues,
   positive_notes |-> Arr(<<>>), test_coverage_notes |-> Undefined]

\* issues an agent may report
GoodIssue == MkIssue(Str(<<"src/auth.ts">>), Str(<<"45-52">>), Str(<<"security">>),
                     Str(<<"critical">>), Str(<<"sql", " ", "injection">>))

\* the same finding written with other blanks and letter case
GoodIssueRespelt ==
  MkIssue(Str(<<"src/auth.ts">>), Str(<<"45-52", " ">>), Str(<<"security">>),
          Str(<<"CRITICAL">>), Str(<<" ", "SQL", " ", "\n", "injection">>))

MinorIssue == MkIssue(Str(<<"src/a.ts">>), Undefined, Str(<<"style">>),
                      Str(<<"minor">>), Str(<<"unused">>))

BlockerIssue == MkIssue(Str(<<"src/b.ts">>), Str(<<"7">>), Str(<<"bug">>),
                        Str(<<"blocker">>), Str(<<"crash">>))

\* an issue the schema rejects: severity is missing
BadIssue == MkIssue(Str(<<"src/auth.ts">>), Undefined, Str(<<"security">>),
                    Undefined, Str(<<"sql", " ", "injection">>))

\* z.string().optional()
OptionalString(v) == v.k = "undefined" \/ IsString(v)

DiffIssueSchema(v) ==
  /\ v.k = "object"
  /\ IsString(v.file)
  /\ OptionalString(v.line_range)
  /\ IsString(v.type)
  /\ IsString(v.severity)
  /\ IsString(v.issue)
  /\ IsString(v.why_problem)
  /\ IsString(v.fix)

\* schema.safeParse(parsedData).success for DiffAnalysisSchema
DiffAnalysisSchema(v) ==
  /\ v.k = "object"
  /\ IsString(v.overall_assessment)
  /\ IsBoolean(v.should_merge)
  /\ v.issues.k = "array"
  /\ \A i \in 1..Len(v.issues.items) : DiffIssueSchema(v.issues.items[i])
  /\ v.positive_notes.k = "array"
  /\ OptionalString(v.test_coverage_notes)

----------------------------------------------------------------------------
(* Text of the agent's messages (codex-runner.ts lines 18-24, 75-86) *)

\* the token standing for the JSON text of the object the agent reports
JsonText == "<json>"

\* the token standing for a run of three backquotes
Fence == "<fence>"

\* String.prototype.toLowerCase on the tokens the model uses
ToLowerCase(tok) ==
  CASE tok = "JSON" -> "json"
    [] tok = "CRITICAL" -> "critical"
    [] tok = "Major" -> "major"
    [] tok = "SQL" -> "sql"
    [] OTHER -> tok

\* the first replace: a leading fence tagged json (in any case) goes, with the
\* blanks after it
StripJsonFence(s) ==
  IF Len(s) >= 2 /\ s[1] = Fence /\ ToLowerCase(s[2]) = "json"
  THEN TrimStart(SubSeq(s, 3, Len(s)))
  ELSE s

\* the second replace: a leading fence goes, with the blanks after it
StripOpenFence(s) ==
  IF s # <<>> /\ Head(s) = Fence THEN TrimStart(Tail(s)) ELSE s

\* the third replace: a trailing fence goes, with the blanks after it
StripCloseFence(s) ==
  LET t == TrimEnd(s)
  IN IF t # <<>> /\ t[Len(t)] = Fence THEN SubSeq(t, 1, Len(t) - 1) ELSE s

stripCodeFences(text) == Trim(StripCloseFence(StripOpenFence(StripJsonFence(text))))

\* JSON.parse(text) when the JSON text present is that of obj: it succeeds when
\* the text is one JSON value with nothing but blanks around it
JSONParse(text, obj) ==
  LET t == Trim(text)
  IN IF Len(t) = 1 /\ t[1] = JsonText
     THEN [ok |-> TRUE, value |-> obj]
     ELSE IF Len(t) = 1 /\ t[1] = "42"
     THEN [ok |-> TRUE, value |-> JNumber]
     ELSE [ok |-> FALSE, value |-> Undefined]

----------------------------------------------------------------------------
(* Events of thread.runStreamed (ThreadEvent of the SDK) *)

NoText == <<>>

MsgEv(t)      == [type |-> "item.completed", item |-> "agent_message",
                  text |-> t, message |-> Undefined]
ErrEv(m)      == [type |-> "item.completed", item |-> "error",
                  text |-> NoText, message |-> m]
OtherItemEv   == [type |-> "item.completed", item |-> "reasoning",
                  text |-> NoText, message |-> Undefined]
TurnCompleted == [type |-> "turn.completed", item |-> "",
                  text |-> NoText, message |-> Undefined]
TurnFailed(m) == [type |-> "turn.failed", item |-> "",
                  text |-> NoText, message |-> m]

\* what an agent message may hold: the JSON alone, the JSON in a fence tagged
\* json, in a fence without a tag or in a fence tagged js, prose, or nothing
\* but a line break
AgentTexts ==
  { <<JsonText>>,
    <<Fence, "json", "\n", JsonText, "\n", Fence>>,
    <<Fence, "\n", JsonText, "\n", Fence>>,
    <<Fence, "js", "\n", JsonText, "\n", Fence>>,
    <<"prose">>,
    <<"\n">> }

ErrTexts  == {Str(<<"e1">>), Str(<<"e2">>)}
FailTexts == {Str(<<"f1">>)}

Events ==
  {MsgEv(t) : t \in AgentTexts} \cup {ErrEv(m) : m \in ErrTexts}
    \cup {TurnFailed(m) : m \in FailTexts} \cup {OtherItemEv, TurnCompleted}

IsFailure(e) ==
  \/ e.type = "item.completed" /\ e.item = "error"
  \/ e.type = "turn.failed"

UsageCounters == [k |-> "usage", s |-> <<>>]

----------------------------------------------------------------------------
(* runWithSchema (codex-runner.ts lines 26-126) *)

NoOutcome == [kind |-> "running", msg |-> Undefined, data |-> Undefined, usage |-> JNull]

\* the local state of one runWithSchema call, as a record
Cur ==
  [rpc |-> rpc, answer |-> answer, hasSignal |-> hasSignal, extAborted |-> extAborted,
   timer |-> timer, aborted |-> aborted, evLimit |-> evLimit, nEvents |-> nEvents,
   stalled |-> stalled,
   messages |-> messages,
   usage |-> usage, errorMessage |-> errorMessage, exchanges |-> exchanges,
   outcome |-> outcome, firstFailure |-> firstFailure, parse1 |-> parse1,
   parse2 |-> parse2]

SetRun(r) ==
  /\ rpc' = r.rpc
  /\ answer' = r.answer
  /\ hasSignal' = r.hasSignal
  /\ extAborted' = r.extAborted
  /\ timer' = r.timer
  /\ aborted' = r.aborted
  /\ evLimit' = r.evLimit
  /\ nEvents' = r.nEvents
  /\ stalled' = r.stalled
  /\ messages' = r.messages
  /\ usage' = r.usage
  /\ errorMessage' = r.errorMessage
  /\ exchanges' = r.exchanges
  /\ outcome' = r.outcome
  /\ firstFailure' = r.firstFailure
  /\ parse1' = r.parse1
  /\ parse2' = r.parse2

\* the state at entry, before line 32
FreshRun(obj, signal, limit) ==
  [rpc |-> "start", answer |-> obj, hasSignal |-> signal, extAborted |-> FALSE,
   timer |-> "unarmed", aborted |-> FALSE, evLimit |-> limit, nEvents |-> 0,
   stalled |-> FALSE,
   messages |-> <<>>,
   usage |-> JNull, errorMessage |-> JNull, exchanges |-> 0,
   outcome |-> NoOutcome, firstFailure |-> Undefined, parse1 |-> "none",
   parse2 |-> "none"]

\* no call of runWithSchema is under way
NoRun == [FreshRun(Undefined, FALSE, 0) EXCEPT !.rpc = "idle"]

\* clearTimeout(timeoutId): a timer that has not fired yet never will
ClearTimeout(r) == [r EXCEPT !.timer = IF @ = "armed" THEN "cleared" ELSE @]

ThrowLeavesTimer(r, kind, msg) ==
  [r EXCEPT
     !.rpc = "done",
     !.outcome = [kind |-> kind, msg |-> msg, data |-> Undefined, usage |-> JNull]]

\* an exception leaving the try block: lines 122-125 clear the timer and rethrow
Throw(r, kind, msg) ==
  [ClearTimeout(r) EXCEPT
     !.rpc = "done",
     !.outcome = [kind |-> kind, msg |-> msg, data |-> Undefined, usage |-> JNull]]

\* lines 118-121
Return(r, data) ==
  [r EXCEPT
     !.rpc = "done",
     !.outcome = [kind |-> "ok", msg |-> Undefined, data |-> data, usage |-> r.usage]]

ValidateLenient(r, parsedData) == Return(r, parsedData)

\* lines 109-121: validate with the schema, return or throw
Validate(r, parsedData) ==
  IF DiffAnalysisSchema(parsedData)
  THEN Return(r, parsedData)
  ELSE Throw(r, "schema_error", Undefined)

\* lines 47-65: the body of the first loop on one event
LoopBody1(r, e) ==
  IF r.aborted THEN Throw(r, "timeout", Str(<<"Request timed out">>))
  ELSE IF r.hasSignal /\ r.extAborted
  THEN Throw(r, "cancelled", Str(<<"Request cancelled">>))
  ELSE IF e.type = "item.completed"
  THEN IF e.item = "agent_message"
       THEN [r EXCEPT !.messages = Append(@, e.text)]
       ELSE IF e.item = "error"
       THEN [r EXCEPT !.errorMessage = e.message]
       ELSE r
  ELSE IF e.type = "turn.completed"
  THEN [r EXCEPT !.usage = UsageCounters]
  ELSE IF e.type = "turn.failed"
  THEN Throw(r, "turn_failed", e.message)
  ELSE r

\* lines 92-93: the repair request on the same thread
StartRepair(r) ==
  [r EXCEPT !.rpc = "loop2", !.exchanges = @ + 1, !.messages = <<>>, !.nEvents = 0]

\* lines 68-93, 109-121: what follows the first loop, up to the next await
AfterLoop1(r) ==
  LET r1 == ClearTimeout(r)
      finalResponse == Trim(JoinNL(r1.messages))
      cleanedResponse == stripCodeFences(finalResponse)
      p == JSONParse(cleanedResponse, r1.answer)
  IN IF Truthy(r1.errorMessage)
     THEN Throw(r1, "agent_error", r1.errorMessage)
     ELSE IF finalResponse = <<>>
     THEN Throw(r1, "no_response", Str(<<"No response from Codex agent">>))
     ELSE IF p.ok
     THEN Validate([r1 EXCEPT !.parse1 = "ok"], p.value)
     ELSE StartRepair([r1 EXCEPT !.parse1 = "fail"])

\* lines 95-99: the body of the repair loop on one event
LoopBody2(r, e) ==
  IF e.type = "item.completed" /\ e.item = "agent_message"
  THEN [r EXCEPT !.messages = Append(@, e.text)]
  ELSE r

\* a second parse failure asks for another repair
AfterLoop2Retry(r) ==
  LET repairedResponse == stripCodeFences(Trim(JoinNL(r.messages)))
      p == JSONParse(repairedResponse, r.answer)
  IN IF p.ok
     THEN Validate([r EXCEPT !.parse2 = "ok"], p.value)
     ELSE IF r.exchanges < 3
     THEN StartRepair([r EXCEPT !.parse2 = "fail"])
     ELSE Throw([r EXCEPT !.parse2 = "fail"], "format_error",
                Str(<<"Failed to parse JSON even after repair">>))

\* lines 101-121: what follows the repair loop
AfterLoop2(r) ==
  LET repairedResponse == stripCodeFences(Trim(JoinNL(r.messages)))
      p == JSONParse(repairedResponse, r.answer)
  IN IF p.ok
     THEN Validate([r EXCEPT !.parse2 = "ok"], p.value)
     ELSE Throw([r EXCEPT !.parse2 = "fail"], "format_error",
                Str(<<"Failed to parse JSON even after repair">>))

\* history: the message of the first failure event a loop body was run on
NoteFailure(r, e) ==
  IF IsFailure(e) /\ r.firstFailure = Undefined
  THEN [r EXCEPT !.firstFailure = e.message]
  ELSE r

Counted(r) == [r EXCEPT !.nEvents = @ + 1]

\* Each step of a run is given as the set of states it can lead to from r
\* (empty when the step cannot be taken in r).

\* lines 32-40: arm the timer, call thread.runStreamed(prompt)
RunStartTo(r) ==
  IF r.rpc = "start"
  THEN {[r EXCEPT !.timer = "armed", !.exchanges = 1, !.rpc = "loop1"]}
  ELSE {}

\* lines 35-37: timeoutMs elapsed with the timer still armed
TimerFiresTo(r) ==
  IF r.timer = "armed"
  THEN {[r EXCEPT !.timer = "fired", !.aborted = TRUE]}
  ELSE {}

\* the caller aborts options.abortSignal
ExternalAbortTo(r) ==
  IF r.hasSignal /\ ~r.extAborted /\ r.rpc \in {"loop1", "loop2"}
  THEN {[r EXCEPT !.extAborted = TRUE]}
  ELSE {}

\* the stream of the current exchange stops yielding without ending
StreamStallsTo(r) ==
  IF r.rpc \in {"loop1", "loop2"} /\ ~r.stalled
  THEN {[r EXCEPT !.stalled = TRUE]}
  ELSE {}

\* the stream of the first exchange yields an event
Loop1EventTo(r) ==
  IF r.rpc = "loop1" /\ ~r.stalled /\ r.nEvents < r.evLimit
  THEN {LoopBody1(IF r.aborted \/ (r.hasSignal /\ r.extAborted)
                  THEN Counted(r)
                  ELSE NoteFailure(Counted(r), e), e) : e \in Events}
  ELSE {}

\* the stream of the first exchange ends
Loop1EndTo(r) ==
  IF r.rpc = "loop1" /\ ~r.stalled THEN {AfterLoop1(r)} ELSE {}

\* the stream of the repair exchange yields an event
Loop2EventTo(r) ==
  IF r.rpc = "loop2" /\ ~r.stalled /\ r.nEvents < r.evLimit
  THEN {LoopBody2(NoteFailure(Counted(r), e), e) : e \in Events}
  ELSE {}

\* the stream of the repair exchange ends
Loop2EndTo(r) ==
  IF r.rpc = "loop2" /\ ~r.stalled THEN {AfterLoop2(r)} ELSE {}

\* thread.runStreamed or the iteration of its events throws
StreamThrowsTo(r) ==
  IF r.rpc \in {"loop1", "loop2"} /\ ~r.stalled
  THEN {Throw(r, "stream_error", Str(<<"stream failed">>))}
  ELSE {}

\* every state one step of runWithSchema or of its environment leads to
RunStepTo(r) ==
  RunStartTo(r) \cup TimerFiresTo(r) \cup ExternalAbortTo(r) \cup StreamStallsTo(r)
    \cup Loop1EventTo(r) \cup Loop1EndTo(r) \cup Loop2EventTo(r) \cup Loop2EndTo(r)
    \cup StreamThrowsTo(r)

----------------------------------------------------------------------------
(* checkQualityGate (part_003 lines 200-220) *)

\* toLowerCase of a string
LowerStr(s) == [i \in 1..Len(s) |-> ToLowerCase(s[i])]

\* line 209
severityOrder == << <<"blocker">>, <<"critical">>, <<"major">>, <<"minor">> >>

\* Array.prototype.indexOf on an array of strings (0-based, -1 when absent)
IndexOf(arr, x) ==
  IF \E i \in 1..Len(arr) : arr[i] = x
  THEN (CHOOSE i \in 1..Len(arr) : arr[i] = x /\ \A j \in 1..(i - 1) : arr[j] # x) - 1
  ELSE -1

\* lines 212-219: the loop from issue i on
RECURSIVE GateLoop(_, _, _)
GateLoop(issues, i, threshold) ==
  IF i > Len(issues) THEN FALSE
  ELSE LET issueSeverity == IndexOf(severityOrder, LowerStr(issues[i].severity.s))
       IN IF issueSeverity # -1 /\ issueSeverity <= threshold
          THEN TRUE
          ELSE GateLoop(issues, i + 1, threshold)

checkQualityGateSameSeverity(issues, shouldMerge, opts) ==
  IF ~Truthy(opts.failOn) \/ opts.failOn = Str(<<"none">>)
  THEN FALSE
  ELSE \E i \in 1..Len(issues) :
         /\ IndexOf(severityOrder, opts.failOn.s) # -1
         /\ IndexOf(severityOrder, LowerStr(issues[i].severity.s))
              = IndexOf(severityOrder, opts.failOn.s)

checkQualityGateExclusive(issues, shouldMerge, opts) ==
  IF ~Truthy(opts.failOn) \/ opts.failOn = Str(<<"none">>)
  THEN FALSE
  ELSE GateLoop(issues, 1, IndexOf(severityOrder, opts.failOn.s) - 1)

checkQualityGate(issues, shouldMerge, opts) ==
  IF ~Truthy(opts.failOn) \/ opts.failOn = Str(<<"none">>)
  THEN FALSE
  ELSE GateLoop(issues, 1, IndexOf(severityOrder, opts.failOn.s))

----------------------------------------------------------------------------
(* The thread cache (thread-cache.ts) *)

\* line 47 and line 66: 24 hours in milliseconds
maxAge == 24 * 60 * 60 * 1000

\* the ThreadCache object {}
EmptyCache == <<>>

Entry(threadId, lastUsed) == [threadId |-> threadId, lastUsed |-> lastUsed]

NoFile == [exists |-> FALSE, cache |-> EmptyCache]

\* lines 23-30: the parsed file, or {} when it cannot be read
loadThreadCache(file) == IF file.exists THEN file.cache ELSE EmptyCache

saveThreadCacheWithoutDir(cache) == [exists |-> FALSE, cache |-> <<>>]

\* lines 32-35: the directory is made and the file written whole
saveThreadCache(cache) == [exists |-> TRUE, cache |-> cache]

getThreadIdFromNoExpiry(cache, cacheKey, dateNow) ==
  IF cacheKey \notin DOMAIN cache THEN JNull
  ELSE Str(<<cache[cacheKey].threadId>>)

getThreadIdFromAtLeast(cache, cacheKey, dateNow) ==
  IF cacheKey \notin DOMAIN cache THEN JNull
  ELSE IF dateNow - cache[cacheKey].lastUsed >= maxAge THEN JNull
  ELSE Str(<<cache[cacheKey].threadId>>)

\* lines 39-51: the lookup in the loaded cache
getThreadIdFrom(cache, cacheKey, dateNow) ==
  IF cacheKey \notin DOMAIN cache THEN JNull
  ELSE IF dateNow - cache[cacheKey].lastUsed > 24 * 60 * 60 * 1000 THEN JNull
  ELSE Str(<<cache[cacheKey].threadId>>)

WithEntryAlone(cache, cacheKey, threadId, dateNow) ==
  [k \in {cacheKey} |-> Entry(threadId, dateNow)]

WithEntryIfAbsent(cache, cacheKey, threadId, dateNow) ==
  [k \in DOMAIN cache \cup {cacheKey} |->
     IF k \in DOMAIN cache THEN cache[k] ELSE Entry(threadId, dateNow)]

WithEntryEpoch(cache, cacheKey, threadId, dateNow) ==
  [k \in DOMAIN cache \cup {cacheKey} |->
     IF k = cacheKey THEN Entry(threadId, 0) ELSE cache[k]]

\* lines 56-59: cache[cacheKey] = {threadId, lastUsed: Date.now()}
WithEntry(cache, cacheKey, threadId, dateNow) ==
  [k \in DOMAIN cache \cup {cacheKey} |->
     IF k = cacheKey THEN Entry(threadId, dateNow) ELSE cache[k]]

KeepYoungInverted(cache, dateNow) ==
  LET kept == {k \in DOMAIN cache : dateNow - cache[k].lastUsed > maxAge}
  IN [k \in kept |-> cache[k]]

KeepYoungInclusive(cache, dateNow) ==
  LET kept == {k \in DOMAIN cache : dateNow - cache[k].lastUsed <= maxAge}
  IN [k \in kept |-> cache[k]]

\* lines 65-73: the entries younger than maxAge
KeepYoung(cache, dateNow) ==
  LET kept == {k \in DOMAIN cache : dateNow - cache[k].lastUsed < maxAge}
  IN [k \in kept |-> cache[k]]

\* part_003 line 78: the keys of a commit run and of a branch run
CacheKeys == {"abc123", "diff-main"}

Procs == {1, 2}

\* the instants at which the model looks at the clock
TimePoints == {0} \cup {maxAge + d : d \in (0 - Slack)..Slack}

\* the thread id of the session run p holds
ThreadIdOf(p) == IF p = 1 THEN "t1" ELSE "t2"

IdleProc ==
  [pc |-> "idle", key |-> "", id |-> "", cache |-> EmptyCache, updated |-> EmptyCache,
   at |-> 0, result |-> JNull, alone |-> FALSE, order |-> 0, missing |-> FALSE]

\* history: the number of writes of the cache file made so far
WritesDone == Cardinality({q \in Procs : cp[q].order > 0})

Begin(p, pcNew, key, id) ==
  /\ cp[p].pc = "idle"
  /\ cp' = [cp EXCEPT ![p] =
              [IdleProc EXCEPT !.pc = pcNew, !.key = key, !.id = id,
                               !.cache = loadThreadCache(threadsFile),
                               !.missing = ~threadsFile.exists]]
  /\ UNCHANGED <<threadsFile, now>>
  /\ UNCHANGED otherThanCache

\* getThreadId line 38: the cache is loaded
GetLoad(p) == \E key \in CacheKeys : Begin(p, "get_loaded", key, "")

GetReturnEvicting(p) ==
  /\ cp[p].pc = "get_loaded"
  /\ cp' = [cp EXCEPT ![p].pc = "got", ![p].at = now,
                      ![p].result = getThreadIdFrom(cp[p].cache, cp[p].key, now)]
  /\ threadsFile' =
       IF cp[p].key \in DOMAIN cp[p].cache
          /\ getThreadIdFrom(cp[p].cache, cp[p].key, now) = JNull
       THEN saveThreadCache([k \in DOMAIN cp[p].cache \ {cp[p].key} |-> cp[p].cache[k]])
       ELSE threadsFile
  /\ UNCHANGED now
  /\ UNCHANGED otherThanCache

\* getThreadId lines 39-51
GetReturn(p) ==
  /\ cp[p].pc = "get_loaded"
  /\ cp' = [cp EXCEPT ![p].pc = "got", ![p].at = now,
                      ![p].result = getThreadIdFrom(cp[p].cache, cp[p].key, now)]
  /\ UNCHANGED <<threadsFile, now>>
  /\ UNCHANGED otherThanCache

\* saveThreadId line 55
SaveLoad(p) ==
  \E key \in CacheKeys : Begin(p, "save_loaded", key, ThreadIdOf(p))

\* saveThreadId lines 56-60, up to the await in saveThreadCache
SaveUpdate(p) ==
  /\ cp[p].pc = "save_loaded"
  /\ cp' = [cp EXCEPT ![p].pc = "save_write", ![p].at = now,
                      ![p].updated = WithEntry(cp[p].cache, cp[p].key, cp[p].id, now)]
  /\ UNCHANGED <<threadsFile, now>>
  /\ UNCHANGED otherThanCache

\* saveThreadCache line 34 of a saveThreadId
SaveWrite(p) ==
  /\ cp[p].pc = "save_write"
  /\ threadsFile' = saveThreadCache(cp[p].updated)
  /\ cp' = [cp EXCEPT ![p].pc = "saved",
                      ![p].order = WritesDone + 1,
                      ![p].alone = (loadThreadCache(threadsFile) = cp[p].cache)]
  /\ UNCHANGED now
  /\ UNCHANGED otherThanCache

\* clearOldThreads line 64
ClearLoad(p) == Begin(p, "clear_loaded", "", "")

\* clearOldThreads lines 65-75, up to the await in saveThreadCache
ClearFilter(p) ==
  /\ cp[p].pc = "clear_loaded"
  /\ cp' = [cp EXCEPT ![p].pc = "clear_write", ![p].at = now,
                      ![p].updated = KeepYoung(cp[p].cache, now)]
  /\ UNCHANGED <<threadsFile, now>>
  /\ UNCHANGED otherThanCache

\* saveThreadCache line 34 of a clearOldThreads
ClearWrite(p) ==
  /\ cp[p].pc = "clear_write"
  /\ threadsFile' = saveThreadCache(cp[p].updated)
  /\ cp' = [cp EXCEPT ![p].pc = "cleared",
                      ![p].order = WritesDone + 1,
                      ![p].alone = (loadThreadCache(threadsFile) = cp[p].cache)]
  /\ UNCHANGED now
  /\ UNCHANGED otherThanCache

\* time passes
Tick ==
  /\ \E t \in TimePoints : t > now /\ now' = t
  /\ UNCHANGED <<threadsFile, cp>>
  /\ UNCHANGED otherThanCache

----------------------------------------------------------------------------
(* Fingerprints (fingerprint.ts) *)

\* a || b
Or(a, b) == IF Truthy(a) THEN a ELSE b

\* obj.name, undefined when the object has no such property
Field(obj, name) == IF name \in DOMAIN obj THEN obj[name] ELSE Undefined

normalizeLineRangeVerbatim(range) ==
  IF ~Truthy(range) THEN <<"0">> ELSE range.s

\* lines 13-17
normalizeLineRange(range) ==
  IF ~Truthy(range) THEN <<"0">>
  ELSE SelectSeq(range.s, LAMBDA tok : ~IsBlank(tok))

RECURSIVE CollapseBlanks(_)
\* replace(/\s+/g, " ")
CollapseBlanks(s) ==
  IF s = <<>> THEN <<>>
  ELSE IF IsBlank(Head(s))
  THEN <<" ">> \o CollapseBlanks(TrimStart(s))
  ELSE <<Head(s)>> \o CollapseBlanks(Tail(s))

\* lines 19-23
normalizeIssueText(text) ==
  IF ~Truthy(text) THEN <<>>
  ELSE CollapseBlanks(Trim(LowerStr(text.s)))

RECURSIVE JoinBar(_)
\* parts.join("|")
JoinBar(parts) ==
  IF parts = <<>> THEN <<>>
  ELSE IF Len(parts) = 1 THEN parts[1]
  ELSE parts[1] \o <<"|">> \o JoinBar(Tail(parts))

\* line 34: the first 16 hex digits of the SHA-256 digest; different data are
\* taken to have different digests
Sha256Hex16(data) == <<"sha256:">> \o data

\* lines 26-33: the string that is hashed
FingerprintData(issue) ==
  LET parts == << Field(issue, "file").s,
                  normalizeLineRange(Field(issue, "line_range")),
                  Or(Field(issue, "type"), Or(Field(issue, "title"), Str(<<>>))).s,
                  normalizeIssueText(Or(Field(issue, "issue"),
                                        Or(Field(issue, "description"), Str(<<>>)))) >>
  IN JoinBar(parts)

\* lines 25-35
computeFingerprint(issue) == Str(Sha256Hex16(FingerprintData(issue)))

\* {...issue, fingerprint}
WithFingerprint(issue, fingerprint) ==
  [f \in DOMAIN issue \cup {"fingerprint"} |->
     IF f = "fingerprint" THEN fingerprint ELSE issue[f]]

\* lines 41-46
addFingerprints(issues) ==
  [i \in 1..Len(issues) |-> WithFingerprint(issues[i], computeFingerprint(issues[i]))]

filterNewIssuesDistinct(issues, baselineFingerprints) ==
  LET first(i) == \A j \in 1..(i - 1) : issues[j] # issues[i]
      F[i \in 0..Len(issues)] ==
        IF i = 0 THEN <<>>
        ELSE IF issues[i].fingerprint \notin baselineFingerprints /\ first(i)
             THEN Append(F[i - 1], issues[i])
             ELSE F[i - 1]
  IN F[Len(issues)]

filterNewIssuesDropHead(issues, baselineFingerprints) ==
  LET kept == SelectSeq(issues, LAMBDA issue : issue.fingerprint \notin baselineFingerprints)
  IN IF kept = <<>> THEN kept ELSE Tail(kept)

\* lines 48-53
filterNewIssues(issues, baselineFingerprints) ==
  SelectSeq(issues, LAMBDA issue : issue.fingerprint \notin baselineFingerprints)

----------------------------------------------------------------------------
(* analyzeDiff (part_003 lines 45-159) and the functions it calls *)

\* an option the run has not read yet.  The options never change; the model
\* settles the value of an option at the statement that first reads it.
Unread == [k |-> "unread", s |-> <<>>]

OptionsUnread ==
  [commit |-> Unread, branch |-> Unread, output |-> Unread, failOn |-> Unread,
   baseline |-> Unread, updateBaseline |-> Unread, newIssuesOnly |-> Unread,
   format |-> Unread, maxIssues |-> Unread]

\* cli.ts lines 72-86: the values the diff command takes from its command line
Commits        == {Undefined, Str(<<"abc123">>)}
Branches       == {Str(<<"main">>)}
Outputs        == {Str(<<"diff-analysis", ".json">>), Str(<<"report", ".txt">>)}
FailOns        == {Str(<<w>>) : w \in {"none", "minor", "critical", "high"}}
Baselines      == {Undefined, Str(<<"baseline", ".json">>)}
UpdateBaselines == {JFalse, JTrue}
NewIssuesOnlys == {JTrue}
Formats        == {Arr(<<Str(<<"json">>)>>),
                   Arr(<<Str(<<"sarif">>), Str(<<"JSON">>), Str(<<"md">>)>>),
                   Arr(<<Str(<<"xml">>)>>)}
MaxIssuesValues == {Undefined, Num(0), Num(1), Num(0 - 1)}

\* a file holding text; holds is the value its text is the JSON of
NoSuchFile == [exists |-> FALSE, data |-> <<>>, holds |-> Undefined]
JsonFile(v) == [exists |-> TRUE, data |-> <<JsonText>>, holds |-> v]
TextFile(t) == [exists |-> TRUE, data |-> t, holds |-> Undefined]

\* new Set(v): the elements of an array; a value that cannot be iterated throws
NewSet(v) ==
  IF v.k = "array"
  THEN [ok |-> TRUE, set |-> {v.items[i] : i \in 1..Len(v.items)}]
  ELSE [ok |-> FALSE, set |-> {}]

loadBaselineSticky(file) ==
  LET fingerprints == JSONParse(file.data, file.holds)
  IN IF file.exists /\ fingerprints.ok /\ NewSet(fingerprints.value).ok
     THEN NewSet(fingerprints.value).set
     ELSE {computeFingerprint(GoodIssue)}

\* lines 190-198
loadBaseline(file) ==
  LET fingerprints == JSONParse(file.data, file.holds)
  IN IF file.exists /\ fingerprints.ok /\ NewSet(fingerprints.value).ok
     THEN NewSet(fingerprints.value).set
     ELSE {}

RECURSIVE Dedup(_)
\* Array.from(new Set(arr)): the first occurrence of each element, in order
Dedup(arr) ==
  IF arr = <<>> THEN <<>>
  ELSE LET init == Dedup(SubSeq(arr, 1, Len(arr) - 1))
           last == arr[Len(arr)]
       IN IF \E i \in 1..Len(init) : init[i] = last THEN init ELSE Append(init, last)

\* Array.prototype.slice(0, end)
Slice0(arr, end) ==
  LET e == IF end < 0
           THEN (IF Len(arr) + end < 0 THEN 0 ELSE Len(arr) + end)
           ELSE (IF end > Len(arr) THEN Len(arr) ELSE end)
  IN SubSeq(arr, 1, e)

\* path.replace(/\.json$/, ext)
ReplaceJsonExt(path, ext) ==
  IF path # <<>> /\ path[Len(path)] = ".json"
  THEN SubSeq(path, 1, Len(path) - 1) \o <<ext>>
  ELSE path

\* lines 226-245: the file one format asks for, none for an unknown format
ArtifactsOf(format, output, result) ==
  LET f == LowerStr(format.s)
  IN IF f = <<"json">>
     THEN << [path |-> output.s, kind |-> "json", issues |-> result.issues] >>
     ELSE IF f = <<"sarif">>
     THEN << [path |-> ReplaceJsonExt(output.s, ".sarif"), kind |-> "sarif",
              issues |-> result.issues] >>
     ELSE IF f \in {<<"markdown">>, <<"md">>}
     THEN << [path |-> ReplaceJsonExt(output.s, ".md"), kind |-> "markdown",
              issues |-> result.issues] >>
     ELSE <<>>

RECURSIVE Artifacts(_, _, _)
\* lines 223-246: the files writeOutputs writes when no write fails, in order
Artifacts(formats, output, result) ==
  IF formats = <<>> THEN <<>>
  ELSE ArtifactsOf(Head(formats), output, result)
         \o Artifacts(Tail(formats), output, result)

\* line 78
cacheKeyOf(opts) ==
  IF Truthy(opts.commit) THEN opts.commit.s[1]
  ELSE IF Or(opts.branch, Str(<<"main">>)).s = <<"main">> THEN "diff-main"
  ELSE "diff-other"

\* the locals of analyzeDiff before line 50
NoLocals ==
  [diff |-> Undefined, cacheKey |-> "", cachedThreadId |-> Undefined,
   threadId |-> Undefined, fingerprintedIssues |-> <<>>, filteredIssues |-> <<>>,
   baseline |-> {}, finalResult |-> Undefined, shouldFail |-> FALSE]

\* history: compaction has been done; the age at lookup of the entry under the
\* cache key (-1 with no entry); the baseline file as line 112 read it; the
\* error that was thrown; the gate has been evaluated
\* further: the environment checks passed; the cache file as the lookup found
\* it; the baseline file was written; writeOutputs was entered, the files it
\* was asked for and the writes it attempted; the list given to the gate
NoHistory ==
  [compacted |-> FALSE, lookupAge |-> 0 - 1, baselineRead |-> NoSuchFile,
   failure |-> "none", gateRan |-> FALSE,
   checked |-> {}, cacheAtLookup |-> NoFile, baselineWritten |-> FALSE,
   emitting |-> FALSE, requested |-> 0, attempted |-> 0, gated |-> <<>>]

\* the state of one analyzeDiff call, as a record
Here ==
  [pc |-> pc, options |-> options, loc |-> loc, baselineFile |-> baselineFile,
   written |-> written, exitCode |-> exitCode, hist |-> hist]

SetPipe(p) ==
  /\ pc' = p.pc
  /\ options' = p.options
  /\ loc' = p.loc
  /\ baselineFile' = p.baselineFile
  /\ written' = p.written
  /\ exitCode' = p.exitCode
  /\ hist' = p.hist

\* the state at entry
FreshPipe(file) ==
  [pc |-> "validateGitRepo", options |-> OptionsUnread, loc |-> NoLocals,
   baselineFile |-> file, written |-> <<>>, exitCode |-> 0 - 1, hist |-> NoHistory]

\* no call of analyzeDiff is under way
NoPipe == [FreshPipe(NoSuchFile) EXCEPT !.pc = "off"]

CaughtAsSuccess(p, kind) ==
  [p EXCEPT !.pc = "exited", !.exitCode = 0, !.hist.failure = kind]

\* lines 155-158: an exception leaving the try block
Caught(p, kind) ==
  [p EXCEPT !.pc = "exited", !.exitCode = 1, !.hist.failure = kind]

ReturnedOnward(p) == [p EXCEPT !.pc = "getThreadId"]

\* the function returns and the process ends on its own
Returned(p) == [p EXCEPT !.pc = "exited", !.exitCode = 0]

ExitOnGateAsError(shouldFail) == IF shouldFail THEN 1 ELSE 0

\* lines 149-154: process.exit(2) when the gate fails, a normal return otherwise
ExitOnGate(shouldFail) == IF shouldFail THEN 2 ELSE 0

GateInputUnfiltered(l) == l.fingerprintedIssues

GateInputAsReported(l) == outcome.data.issues.items

BaselineInputFiltered(l) == l.filteredIssues

\* line 119: the list whose fingerprints go into the baseline file
BaselineInput(l) == l.fingerprintedIssues

\* line 148: the list handed to checkQualityGate
GateInput(l) == l.filteredIssues

\* line 50
ValidateGitRepo ==
  /\ pc = "validateGitRepo"
  /\ \E ok \in BOOLEAN :
       SetPipe(IF ok THEN [Here EXCEPT !.pc = "validateCodexCLI",
                                       !.hist.checked = @ \cup {"git"}]
               ELSE Caught(Here, "git_repo"))
  /\ UNCHANGED <<runVars, pureVars, cacheVars>>

\* line 51
ValidateCodexCLI ==
  /\ pc = "validateCodexCLI"
  /\ \E ok \in BOOLEAN :
       SetPipe(IF ok THEN [Here EXCEPT !.pc = "validateAPIKey",
                                       !.hist.checked = @ \cup {"codex"}]
               ELSE Caught(Here, "codex_cli"))
  /\ UNCHANGED <<runVars, pureVars, cacheVars>>

ValidateAPIKeyUnchecked ==
  /\ pc = "validateAPIKey"
  /\ SetPipe([Here EXCEPT !.pc = "clearOldThreads"])
  /\ UNCHANGED <<runVars, pureVars, cacheVars>>

\* line 52
ValidateAPIKey ==
  /\ pc = "validateAPIKey"
  /\ \E ok \in BOOLEAN :
       SetPipe(IF ok THEN [Here EXCEPT !.pc = "clearOldThreads",
                                       !.hist.checked = @ \cup {"key"}]
               ELSE Caught(Here, "api_key"))
  /\ UNCHANGED <<runVars, pureVars, cacheVars>>

\* line 55: clearOldThreads (thread-cache.ts lines 63-76); the write may fail
ClearOldThreads ==
  /\ pc = "clearOldThreads"
  /\ \E ok \in BOOLEAN :
       IF ok
       THEN /\ threadsFile' = saveThreadCache(KeepYoung(loadThreadCache(threadsFile), now))
            /\ SetPipe([Here EXCEPT !.pc = "getMinimizedDiff", !.hist.compacted = TRUE])
       ELSE /\ UNCHANGED threadsFile
            /\ SetPipe(Caught(Here, "cache_write"))
  /\ UNCHANGED <<now, cp>>
  /\ UNCHANGED <<runVars, pureVars>>

\* part_002 line 20: git exits with an error, or prints nothing, a line
\* break only, or a diff
GitResults ==
  { [failed |-> TRUE, stdout |-> <<>>],
    [failed |-> FALSE, stdout |-> <<>>],
    [failed |-> FALSE, stdout |-> <<"\n">>],
    [failed |-> FALSE, stdout |-> <<"diff", "\n">>] }

\* lines 57-75 (part_002 lines 8-22): the diff is what git printed, trimmed;
\* a diff that is too large only draws a warning
GetMinimizedDiff ==
  /\ pc = "getMinimizedDiff"
  /\ \E commit \in Commits, branch \in Branches, git \in GitResults :
       LET p == [Here EXCEPT !.options.commit = commit, !.options.branch = branch]
           diff == Str(Trim(git.stdout))
       IN SetPipe(IF git.failed THEN Caught(p, "git_diff")
                  ELSE IF ~Truthy(diff)
                  THEN Returned([p EXCEPT !.loc.diff = diff])
                  ELSE [p EXCEPT !.loc.diff = diff, !.pc = "getThreadId"])
  /\ UNCHANGED <<runVars, pureVars, cacheVars>>


\* what the agent reports in a run of analyzeDiff
PipeAnswers ==
  { MkAnalysis(JTrue, Arr(<<>>)),
    MkAnalysis(JFalse, Arr(<<GoodIssue, GoodIssueRespelt, MinorIssue>>)),
    MkAnalysis(JFalse, Arr(<<GoodIssueRespelt, MinorIssue, BlockerIssue>>)),
    MkAnalysis(Str(<<"no">>), Arr(<<GoodIssue>>)) }

\* lines 78-99: the cache lookup (thread-cache.ts lines 37-52), the thread is
\* resumed or started, and runWithSchema is called with no abort signal
GetThreadId ==
  /\ pc = "getThreadId"
  /\ LET cacheKey == cacheKeyOf(options)
         cache == loadThreadCache(threadsFile)
         cachedThreadId == getThreadIdFrom(cache, cacheKey, now)
         age == IF cacheKey \in DOMAIN cache THEN now - cache[cacheKey].lastUsed
                ELSE 0 - 1
     IN SetPipe([Here EXCEPT
                   !.pc = "runWithSchema",
                   !.loc.cacheKey = cacheKey,
                   !.loc.cachedThreadId = cachedThreadId,
                   !.loc.threadId = IF Truthy(cachedThreadId) THEN cachedThreadId
                                    ELSE Str(<<"tNew">>),
                   !.hist.lookupAge = age,
                   !.hist.cacheAtLookup = threadsFile])
  /\ \E obj \in PipeAnswers : SetRun(FreshRun(obj, FALSE, MaxPipeEvents))
  /\ UNCHANGED <<pureVars, cacheVars>>

\* the call of runWithSchema is over: what it returned or threw is all that
\* is left of it
Finished(r) == [NoRun EXCEPT !.rpc = "over", !.answer = r.answer, !.outcome = r.outcome]

\* line 94: runWithSchema throws
RunThrows ==
  /\ pc = "runWithSchema"
  /\ rpc = "done"
  /\ outcome.kind # "ok"
  /\ SetPipe(Caught(Here, outcome.kind))
  /\ SetRun(Finished(Cur))
  /\ UNCHANGED <<pureVars, cacheVars>>

\* line 94
result == outcome.data

\* lines 94-104: runWithSchema returns; saveThreadId (thread-cache.ts lines
\* 54-61), whose write may fail
SaveThreadId ==
  /\ pc = "runWithSchema"
  /\ rpc = "done"
  /\ outcome.kind = "ok"
  /\ IF Truthy(loc.threadId)
     THEN \E ok \in BOOLEAN :
            IF ok
            THEN /\ threadsFile' =
                      saveThreadCache(WithEntry(loadThreadCache(threadsFile),
                                                loc.cacheKey, loc.threadId.s[1], now))
                 /\ SetPipe([Here EXCEPT !.pc = "filterBaseline"])
            ELSE /\ UNCHANGED threadsFile
                 /\ SetPipe(Caught(Here, "cache_write"))
     ELSE /\ UNCHANGED threadsFile
          /\ SetPipe([Here EXCEPT !.pc = "filterBaseline"])
  /\ SetRun(Finished(Cur))
  /\ UNCHANGED <<now, cp>>
  /\ UNCHANGED pureVars

\* what the baseline file may hold: fingerprints, or text that is not JSON
BaselineFiles ==
  { JsonFile(Arr(<<computeFingerprint(GoodIssue)>>)),
    TextFile(<<"prose">>) }

\* the user or an earlier run has left a baseline file; the file matters to
\* this run as it is when line 112 reads it
BaselineLeft ==
  /\ pc = "filterBaseline"
  /\ baselineFile = NoSuchFile
  /\ \E file \in BaselineFiles : SetPipe([Here EXCEPT !.baselineFile = file])
  /\ UNCHANGED <<runVars, pureVars, cacheVars>>

\* lines 106-115
FilterBaseline ==
  /\ pc = "filterBaseline"
  /\ \E b \in Baselines, n \in NewIssuesOnlys :
       LET p == [Here EXCEPT !.options.baseline = b, !.options.newIssuesOnly = n]
           fingerprintedIssues == addFingerprints(result.issues.items)
           baseline == loadBaseline(baselineFile)
       IN SetPipe(IF Truthy(b) /\ Truthy(n)
                  THEN [p EXCEPT !.pc = "updateBaseline",
                                 !.hist.baselineRead = baselineFile,
                                 !.loc.fingerprintedIssues = fingerprintedIssues,
                                 !.loc.baseline = baseline,
                                 !.loc.filteredIssues =
                                    filterNewIssues(fingerprintedIssues, baseline)]
                  ELSE [p EXCEPT !.pc = "updateBaseline",
                                 !.loc.fingerprintedIssues = fingerprintedIssues,
                                 !.loc.filteredIssues = fingerprintedIssues])
  /\ UNCHANGED <<runVars, pureVars, cacheVars>>

\* lines 117-125: the write may fail
UpdateBaseline ==
  /\ pc = "updateBaseline"
  /\ \E u \in UpdateBaselines :
       LET p == [Here EXCEPT !.options.updateBaseline = u, !.pc = "capIssues"]
           fingerprints ==
             Dedup([i \in 1..Len(BaselineInput(loc)) |->
                      BaselineInput(loc)[i].fingerprint])
       IN IF Truthy(u) /\ Truthy(options.baseline)
          THEN \E ok \in BOOLEAN :
                 SetPipe(IF ok
                         THEN [p EXCEPT !.baselineFile = JsonFile(Arr(fingerprints)),
                                        !.hist.baselineWritten = TRUE]
                         ELSE Caught(p, "baseline_write"))
          ELSE SetPipe(p)
  /\ UNCHANGED <<runVars, pureVars, cacheVars>>

\* lines 127-133
CapIssues ==
  /\ pc = "capIssues"
  /\ \E m \in MaxIssuesValues :
       LET p == [Here EXCEPT !.options.maxIssues = m, !.pc = "writeOutputs"]
           filteredIssues ==
             IF Truthy(m) /\ Len(loc.filteredIssues) > m.n
             THEN Slice0(loc.filteredIssues, m.n)
             ELSE loc.filteredIssues
           finalResult ==
             [f \in DOMAIN result |->
                IF f = "issues" THEN Arr(filteredIssues) ELSE result[f]]
       IN SetPipe([p EXCEPT !.loc.filteredIssues = filteredIssues,
                            !.loc.finalResult = finalResult])
  /\ UNCHANGED <<runVars, pureVars, cacheVars>>

\* lines 136-145, 222-247: writeOutputs writes its files in order; a write
\* that fails ends it (displayResults and the usage lines only print)
WriteOutputs ==
  /\ pc = "writeOutputs"
  /\ \E fmt \in Formats, out \in Outputs :
       LET p == [Here EXCEPT !.options.format = fmt, !.options.output = out]
           formats == Or(fmt, Arr(<<Str(<<"json">>)>>)).items
           files == Artifacts(formats, out, loc.finalResult)
       IN \E done \in 0..Len(files) :
            SetPipe(IF done = Len(files)
                    THEN [p EXCEPT !.pc = "checkQualityGate",
                                   !.written = written \o files,
                                   !.hist.emitting = TRUE,
                                   !.hist.requested = Len(files),
                                   !.hist.attempted = done]
                    ELSE Caught([p EXCEPT !.written = written \o SubSeq(files, 1, done),
                                          !.hist.emitting = TRUE,
                                          !.hist.requested = Len(files),
                                          !.hist.attempted = done + 1],
                                "output_write"))
  /\ UNCHANGED <<runVars, pureVars, cacheVars>>

\* lines 147-154
QualityGate ==
  /\ pc = "checkQualityGate"
  /\ \E f \in FailOns :
       LET p == [Here EXCEPT !.options.failOn = f]
           shouldFail == checkQualityGate(GateInput(loc), result.should_merge, p.options)
       IN SetPipe([p EXCEPT !.pc = "exited",
                            !.loc.shouldFail = shouldFail,
                            !.exitCode = ExitOnGate(shouldFail),
                            !.hist.gateRan = TRUE,
                            !.hist.gated = GateInput(loc)])
  /\ UNCHANGED <<runVars, pureVars, cacheVars>>

\* time passes before analyzeDiff reads the clock
ClockAdvances ==
  /\ \/ pc \in {"clearOldThreads", "getThreadId"}
     \/ pc = "runWithSchema" /\ rpc = "done" /\ outcome.kind = "ok"
  /\ Tick

----------------------------------------------------------------------------
(* runWithSchema on its own *)

RunAnswers ==
  { MkAnalysis(JFalse, Arr(<<GoodIssue>>)),
    MkAnalysis(Str(<<"no">>), Arr(<<GoodIssue>>)),
    MkAnalysis(JTrue, Arr(<<GoodIssue, BadIssue>>)),
    MkAnalysis(JTrue, Undefined) }

RunIs(r) ==
  /\ rpc = r.rpc /\ answer = r.answer /\ hasSignal = r.hasSignal
  /\ extAborted = r.extAborted /\ timer = r.timer /\ aborted = r.aborted
  /\ evLimit = r.evLimit /\ nEvents = r.nEvents /\ stalled = r.stalled
  /\ messages = r.messages /\ usage = r.usage /\ errorMessage = r.errorMessage
  /\ exchanges = r.exchanges /\ outcome = r.outcome
  /\ firstFailure = r.firstFailure /\ parse1 = r.parse1 /\ parse2 = r.parse2

GateIdle ==
  /\ gIssues = <<>> /\ gOptions = [failOn |-> Undefined]
  /\ gDone = FALSE /\ gResult = FALSE

CallIdle ==
  /\ callArgs = <<>> /\ callResult = <<>> /\ called = FALSE

CacheIdle ==
  /\ threadsFile = NoFile /\ now = 0 /\ cp = [p \in Procs |-> IdleProc]

PipeIs(p) ==
  /\ pc = p.pc /\ options = p.options /\ loc = p.loc
  /\ baselineFile = p.baselineFile /\ written = p.written
  /\ exitCode = p.exitCode /\ hist = p.hist

InitRun ==
  /\ \E obj \in RunAnswers, signal \in BOOLEAN : RunIs(FreshRun(obj, signal, MaxEvents))
  /\ GateIdle
  /\ CallIdle
  /\ CacheIdle
  /\ PipeIs(NoPipe)

RunStart      == (\E r \in RunStartTo(Cur) : SetRun(r)) /\ UNCHANGED otherThanRun
TimerFires    == (\E r \in TimerFiresTo(Cur) : SetRun(r)) /\ UNCHANGED otherThanRun
ExternalAbort == (\E r \in ExternalAbortTo(Cur) : SetRun(r)) /\ UNCHANGED otherThanRun
StreamStalls  == (\E r \in StreamStallsTo(Cur) : SetRun(r)) /\ UNCHANGED otherThanRun
Loop1Event    == (\E r \in Loop1EventTo(Cur) : SetRun(r)) /\ UNCHANGED otherThanRun
Loop1End      == (\E r \in Loop1EndTo(Cur) : SetRun(r)) /\ UNCHANGED otherThanRun
Loop2Event    == (\E r \in Loop2EventTo(Cur) : SetRun(r)) /\ UNCHANGED otherThanRun
Loop2End      == (\E r \in Loop2EndTo(Cur) : SetRun(r)) /\ UNCHANGED otherThanRun
StreamThrows  == (\E r \in StreamThrowsTo(Cur) : SetRun(r)) /\ UNCHANGED otherThanRun

NextRun ==
  \/ RunStart
  \/ TimerFires
  \/ ExternalAbort
  \/ StreamStalls
  \/ Loop1Event
  \/ Loop1End
  \/ Loop2Event
  \/ Loop2End
  \/ StreamThrows

SpecRun == InitRun /\ [][NextRun]_vars

\* the program's own steps are taken and time passes; the agent's stream is
\* under no obligation to yield or to end
FairSpecRun == SpecRun /\ WF_vars(RunStart) /\ WF_vars(TimerFires)

----------------------------------------------------------------------------
(* Claims about runWithSchema *)

\* C1: a repair request is sent exactly when the JSON.parse of the first
\* candidate response fails, and at most once: a run makes at most two
\* runStreamed calls, and a parse failure of the repaired response ends the
\* run with the format error, no third exchange being made.
C1_RepairAtMostOnce ==
  /\ exchanges <= 2
  /\ (exchanges = 2) <=> (parse1 = "fail")
  /\ parse2 # "none" => parse1 = "fail"
  /\ parse2 = "fail" =>
       /\ rpc = "done"
       /\ outcome.kind = "format_error"
       /\ exchanges = 2

C1_Witness ==
  /\ rpc = "done"
  /\ parse1 = "fail"
  /\ parse2 = "fail"
  /\ exchanges = 2

\* C2: when the stream of the first exchange has stalled (it yields no further
\* event and does not end) and timeoutMs has elapsed, runWithSchema eventually
\* fails with the timeout error instead of waiting forever.
C2_TimeoutEventually ==
  (rpc = "loop1" /\ stalled /\ timer = "fired")
     ~> (rpc = "done" /\ outcome.kind = "timeout")

\* C3: when a loop of a run was given a failure event (an error item or
\* turn.failed), the run fails with an agent error that carries the message
\* of the first such event, and returns no data.
C3_FirstFailureWins ==
  (rpc = "done" /\ firstFailure # Undefined) =>
     /\ outcome.kind \in {"agent_error", "turn_failed"}
     /\ outcome.msg = firstFailure
     /\ outcome.data = Undefined

\* C4: runWithSchema returns data only when the parsed object conforms to the
\* schema; a validation failure ends the run at once with the schema error:
\* no data, and no exchange beyond those the parse results account for.
C4_ValidationIsFatal ==
  /\ outcome.kind = "ok" =>
       /\ DiffAnalysisSchema(outcome.data)
       /\ rpc = "done"
  /\ outcome.kind = "schema_error" =>
       /\ rpc = "done"
       /\ outcome.data = Undefined
       /\ exchanges = (IF parse1 = "fail" THEN 2 ELSE 1)
       /\ parse1 = "ok" \/ (parse1 = "fail" /\ parse2 = "ok")
       /\ RunStepTo(Cur) = {}

C4_Witness ==
  /\ outcome.kind = "schema_error"
  /\ exchanges = 1
  /\ parse1 = "ok"

\* the JSON text on lines of its own between an opening fence line, which may
\* carry a language tag, and a closing fence line
FencedJson(text) ==
  \E tag \in {<<>>, <<"json">>, <<"js">>} :
    text = <<Fence>> \o tag \o <<"\n", JsonText, "\n", Fence>>

\* C24: when the first exchange ends and the response gathered from it is
\* the JSON in a code fence, with or without a language tag, the JSON is
\* parsed at once and the call is over after that single exchange: no repair
\* request is sent.
C24_FencedJsonNeedsNoRepair ==
  [][(rpc = "loop1" /\ parse1' # "none" /\ FencedJson(Trim(JoinNL(messages))))
       => (parse1' = "ok" /\ rpc' = "done" /\ exchanges' = 1)]_vars

\* C31: a failure event (an error item or turn.failed) received during the
\* repair exchange makes the run fail: it ends neither with data nor with
\* the format error. (A failure event of the first exchange ends the run
\* before any repair, so a run of two exchanges that noted a failure noted
\* it in the repair exchange.)
C31_RepairFailureIsAgentError ==
  (rpc = "done" /\ exchanges = 2 /\ firstFailure # Undefined)
    => outcome.kind \notin {"ok", "format_error"}

\* C32: when runWithSchema is over, with data or with any error, the timer
\* armed at its entry is not pending any more: it was cleared, or it had
\* fired before.
C32_TimerClearedOnExit ==
  rpc = "done" => (outcome.kind # "running" /\ timer \in {"cleared", "fired"})

C32_Witness ==
  /\ rpc = "done"
  /\ outcome.kind = "turn_failed"
  /\ timer = "cleared"
  /\ exchanges = 1

\* C30: in the first exchange and in the repair exchange alike, an event
\* received after the timeout has fired or the caller's signal was aborted
\* ends the call with the timeout or the cancellation error.
C30_EveryEventChecksAbort ==
  [][(/\ rpc \in {"loop1", "loop2"}
      /\ nEvents' = nEvents + 1
      /\ (aborted \/ (hasSignal /\ extAborted)))
       => (rpc' = "done" /\ outcome'.kind \in {"timeout", "cancelled"})]_vars

----------------------------------------------------------------------------
(* checkQualityGate on drawn inputs *)

\* severity strings an agent may write: the four known ones, other cases of
\* them, and names outside the order
GateSeverities ==
  {"blocker", "critical", "major", "minor", "info", "high", "CRITICAL", "Major"}

\* --fail-on values: unset, the documented five, and strings outside them
GateFailOn ==
  {Undefined} \cup
  {Str(<<w>>) : w \in {"none", "minor", "major", "critical", "blocker", "high", "Major"}}

GateIssue(sev) ==
  MkIssue(Str(<<"src/auth.ts">>), Undefined, Str(<<"bug">>), Str(<<sev>>), Str(<<"text">>))

RECURSIVE SeqsUpTo(_, _)
\* the sequences over S of length at most n
SeqsUpTo(S, n) ==
  IF n = 0 THEN {<<>>}
  ELSE LET shorter == SeqsUpTo(S, n - 1)
       IN shorter \cup {Append(q, x) : q \in shorter, x \in S}

InitGate ==
  /\ RunIs(NoRun)
  /\ CacheIdle
  /\ PipeIs(NoPipe)
  /\ gIssues \in SeqsUpTo({GateIssue(sev) : sev \in GateSeverities}, MaxGateIssues)
  /\ gOptions \in {[failOn |-> f] : f \in GateFailOn}
  /\ gDone = FALSE
  /\ gResult = FALSE
  /\ CallIdle

ApplyGate ==
  /\ ~gDone
  /\ gDone' = TRUE
  /\ gResult' = checkQualityGate(gIssues, TRUE, gOptions)
  /\ UNCHANGED <<gIssues, gOptions>>
  /\ UNCHANGED otherThanGate

NextGate == ApplyGate

SpecGate == InitGate /\ [][NextGate]_vars

\* rank of a severity name in blocker > critical > major > minor, 0 for a
\* name outside the order
SeverityRank(w) ==
  CASE w = <<"blocker">> -> 4
    [] w = <<"critical">> -> 3
    [] w = <<"major">> -> 2
    [] w = <<"minor">> -> 1
    [] OTHER -> 0

\* C5: checkQualityGate returns true exactly when failOn is one of minor,
\* major, critical, blocker and some issue has a recognized severity (read
\* without regard to letter case) at least as severe as failOn; with failOn
\* none or unset it returns false, and an issue with an unrecognized severity
\* never makes it return true.
C5_GateExact ==
  gDone =>
    (gResult <=>
       /\ gOptions.failOn.k = "string"
       /\ SeverityRank(gOptions.failOn.s) >= 1
       /\ \E i \in 1..Len(gIssues) :
            /\ SeverityRank(LowerStr(gIssues[i].severity.s)) >= 1
            /\ SeverityRank(LowerStr(gIssues[i].severity.s))
                 >= SeverityRank(gOptions.failOn.s))

C5_Witness ==
  /\ gDone
  /\ gResult
  /\ gOptions.failOn = Str(<<"major">>)
  /\ Len(gIssues) = 2
  /\ gIssues[1].severity = Str(<<"info">>)
  /\ gIssues[2].severity = Str(<<"critical">>)

\* the thresholds of the chain blocker, critical, major, minor
Thresholds == {<<"blocker">>, <<"critical">>, <<"major">>, <<"minor">>}

\* C21: when the gate has failed at a threshold of the chain blocker,
\* critical, major, minor, applying it to the same issues with any threshold
\* further down the chain (less severe) fails too.
C21_GateMonotone ==
  (gDone /\ gResult /\ gOptions.failOn.s \in Thresholds) =>
    \A lower \in Thresholds :
      SeverityRank(lower) < SeverityRank(gOptions.failOn.s) =>
        checkQualityGate(gIssues, TRUE, [failOn |-> Str(lower)])

C21_Witness ==
  /\ gDone
  /\ gResult
  /\ gOptions.failOn = Str(<<"critical">>)
  /\ Len(gIssues) = 2
  /\ gIssues[1].severity = Str(<<"minor">>)
  /\ gIssues[2].severity = Str(<<"blocker">>)
  /\ checkQualityGate(gIssues, TRUE, [failOn |-> Str(<<"minor">>)])
  /\ ~checkQualityGate(<<gIssues[1]>>, TRUE, gOptions)

----------------------------------------------------------------------------
(* The thread cache under two runs, each calling one cache function *)

\* the caches a file left by earlier runs may hold
InitialCaches ==
  {EmptyCache} \cup
  {[k \in ks |-> Entry("t0", 0)] : ks \in (SUBSET CacheKeys) \ {{}}}

InitCache ==
  /\ RunIs(NoRun)
  /\ GateIdle
  /\ CallIdle
  /\ PipeIs(NoPipe)
  /\ threadsFile \in {NoFile} \cup {saveThreadCache(c) : c \in InitialCaches}
  /\ now = 0
  /\ cp = [p \in Procs |-> IdleProc]

NextCache ==
  \/ \E p \in Procs : GetLoad(p)
  \/ \E p \in Procs : GetReturn(p)
  \/ \E p \in Procs : SaveLoad(p)
  \/ \E p \in Procs : SaveUpdate(p)
  \/ \E p \in Procs : SaveWrite(p)
  \/ \E p \in Procs : ClearLoad(p)
  \/ \E p \in Procs : ClearFilter(p)
  \/ \E p \in Procs : ClearWrite(p)
  \/ Tick

SpecCache == InitCache /\ [][NextCache]_vars

\* C8 as claimed: getThreadId returns null exactly when the loaded cache has
\* no entry for the key or the entry's age is 24 hours or more, and the
\* entry's thread id otherwise.
C8_AbsentFrom24h ==
  \A p \in Procs :
    cp[p].pc = "got" =>
      LET c == cp[p].cache
          k == cp[p].key
      IN IF k \notin DOMAIN c \/ cp[p].at - c[k].lastUsed >= 86400000
         THEN cp[p].result = JNull
         ELSE cp[p].result = Str(<<c[k].threadId>>)

\* C8 amended: getThreadId returns null exactly when the loaded cache has no
\* entry for the key or the entry's age is more than 24 hours; at an age of
\* exactly 24 hours it still returns the entry's thread id.
C8_AbsentAfter24h ==
  \A p \in Procs :
    cp[p].pc = "got" =>
      LET c == cp[p].cache
          k == cp[p].key
      IN IF k \notin DOMAIN c \/ cp[p].at - c[k].lastUsed > 86400000
         THEN cp[p].result = JNull
         ELSE cp[p].result = Str(<<c[k].threadId>>)

C8_Witness ==
  \E p \in Procs :
    /\ cp[p].pc = "got"
    /\ cp[p].key \in DOMAIN cp[p].cache
    /\ cp[p].at - cp[p].cache[cp[p].key].lastUsed = 86400000
    /\ cp[p].result = Str(<<"t0">>)

\* C10: when clearOldThreads writes the file with no other write since it
\* loaded it, the file then holds exactly the entries it held before whose age
\* (at the clock reading of line 65) is under 24 hours, each unchanged; every
\* entry aged 24 hours or more is gone.
C10_ClearKeepsExactlyYoung ==
  [][\A p \in Procs :
       (cp[p].pc = "clear_write" /\ cp'[p].pc = "cleared"
          /\ loadThreadCache(threadsFile) = cp[p].cache) =>
         LET before == loadThreadCache(threadsFile)
             after == threadsFile'.cache
         IN /\ threadsFile'.exists
            /\ \A k \in CacheKeys :
                 k \in DOMAIN after <=>
                   (k \in DOMAIN before /\ cp[p].at - before[k].lastUsed < 86400000)
            /\ \A k \in DOMAIN after : after[k] = before[k]]_vars

C10_Witness ==
  \E p \in Procs :
    /\ cp[p].pc = "cleared"
    /\ cp[p].alone
    /\ threadsFile.cache = cp[p].updated
    /\ \E k \in DOMAIN cp[p].cache : k \notin DOMAIN threadsFile.cache
    /\ \E k \in DOMAIN cp[p].cache : k \in DOMAIN threadsFile.cache

----------------------------------------------------------------------------
(* A run of analyzeDiff *)

\* the thread cache as an earlier run of the commit left it
PipeCache == saveThreadCache([k \in {"abc123"} |-> Entry("t0", 0)])

Init ==
  /\ RunIs(NoRun)
  /\ GateIdle
  /\ CallIdle
  /\ threadsFile = PipeCache
  /\ now = 0
  /\ cp = [p \in Procs |-> IdleProc]
  /\ PipeIs(FreshPipe(NoSuchFile))

Next ==
  \/ ValidateGitRepo
  \/ ValidateCodexCLI
  \/ ValidateAPIKey
  \/ ClearOldThreads
  \/ GetMinimizedDiff
  \/ GetThreadId
  \/ RunStart
  \/ TimerFires
  \/ StreamStalls
  \/ Loop1Event
  \/ Loop1End
  \/ Loop2Event
  \/ Loop2End
  \/ StreamThrows
  \/ RunThrows
  \/ SaveThreadId
  \/ BaselineLeft
  \/ FilterBaseline
  \/ UpdateBaseline
  \/ CapIssues
  \/ WriteOutputs
  \/ QualityGate
  \/ ClockAdvances

Spec == Init /\ [][Next]_vars

----------------------------------------------------------------------------
(* Claims about analyzeDiff *)

\* some issue of the list has a severity of the order blocker > critical >
\* major > minor that is at least as severe as failOn, itself of that order
GateFails(issues, failOn) ==
  /\ SeverityRank(failOn.s) >= 1
  /\ \E i \in 1..Len(issues) :
       /\ SeverityRank(LowerStr(issues[i].severity.s)) >= 1
       /\ SeverityRank(LowerStr(issues[i].severity.s)) >= SeverityRank(failOn.s)

\* the fingerprint is one of those the baseline file held when it was read
InBaseline(fingerprint) ==
  /\ hist.baselineRead.exists
  /\ hist.baselineRead.data = <<JsonText>>
  /\ hist.baselineRead.holds.k = "array"
  /\ \E i \in 1..Len(hist.baselineRead.holds.items) :
       hist.baselineRead.holds.items[i] = fingerprint

\* the issues the agent reported whose fingerprint is not in the baseline
NewIssues ==
  SelectSeq(result.issues.items, LAMBDA issue : ~InBaseline(computeFingerprint(issue)))

\* C6: in a run given a baseline file, no issue of the filtered list has a
\* fingerprint that is in the baseline; the filtered list is the reported
\* issues without those in the baseline, cut to the leading ones the cap lets
\* through; and the run ends with the gate failure exactly when one of the
\* issues of that list is at or above the threshold, so that an issue the
\* baseline or the cap took out has no part in the gate.
C6_SuppressedIssuesNeverReachGate ==
  (pc = "exited" /\ hist.gateRan) =>
    /\ Truthy(options.baseline) =>
         \A j \in 1..Len(loc.filteredIssues) :
           ~InBaseline(loc.filteredIssues[j].fingerprint)
    /\ Len(loc.filteredIssues) <= Len(NewIssues)
    /\ \A j \in 1..Len(loc.filteredIssues) :
         loc.filteredIssues[j] =
           WithFingerprint(NewIssues[j], computeFingerprint(NewIssues[j]))
    /\ (~Truthy(options.maxIssues) \/ Len(NewIssues) <= options.maxIssues.n)
         => Len(loc.filteredIssues) = Len(NewIssues)
    /\ (exitCode = 2) <=> GateFails(loc.filteredIssues, options.failOn)

C6_Witness ==
  /\ pc = "exited"
  /\ hist.gateRan
  /\ Truthy(options.baseline)
  /\ Len(result.issues.items) = 3
  /\ InBaseline(computeFingerprint(result.issues.items[1]))
  /\ options.maxIssues = Num(1)
  /\ Len(loc.filteredIssues) = 1
  /\ options.failOn = Str(<<"critical">>)
  /\ GateFails(result.issues.items, options.failOn)
  /\ exitCode = 0

\* C7: a run that has ended has exit code 0, 1 or 2: 1 exactly when an error
\* was thrown (by a validation, git, the cache, the agent exchange, the parse,
\* the schema or a write), 2 exactly when the gate was evaluated and failed,
\* 0 exactly when no error was thrown and the diff was empty or the gate was
\* evaluated and passed; a run that has not ended has no exit code.
C7_ThreeExitOutcomes ==
  /\ pc # "exited" => exitCode = 0 - 1
  /\ pc = "exited" =>
       /\ exitCode \in {0, 1, 2}
       /\ (exitCode = 1) <=> (hist.failure # "none")
       /\ (exitCode = 2) <=>
            (hist.gateRan /\ GateFails(loc.filteredIssues, options.failOn))
       /\ (exitCode = 0) <=>
            /\ hist.failure = "none"
            /\ \/ loc.diff = Str(<<>>)
               \/ hist.gateRan /\ ~GateFails(loc.filteredIssues, options.failOn)
       /\ hist.failure # "none" => ~hist.gateRan
       /\ (rpc = "over" /\ outcome.kind # "ok") => exitCode = 1

C7_Witness ==
  /\ pc = "exited"
  /\ exitCode = 2
  /\ hist.failure = "none"
  /\ written # <<>>

\* C9 as claimed: the cache lookup is made only after compaction, and a run
\* resumes a session only from an entry whose age at lookup is under 24 hours.
C9_NoResumeFrom24h ==
  /\ loc.cacheKey # "" => hist.compacted
  /\ Truthy(loc.cachedThreadId) =>
       /\ hist.lookupAge >= 0
       /\ hist.lookupAge < 86400000

\* C9 amended: the cache lookup is made only after compaction, and a run
\* resumes a session only from an entry whose age at lookup is 24 hours or
\* less; an entry aged exactly 24 hours at lookup is still resumed, one aged
\* more never is.
C9_NoResumeAfter24h ==
  /\ loc.cacheKey # "" => hist.compacted
  /\ Truthy(loc.cachedThreadId) =>
       /\ hist.lookupAge >= 0
       /\ hist.lookupAge <= 86400000
  /\ (loc.cacheKey # "" /\ hist.lookupAge > 86400000) => ~Truthy(loc.cachedThreadId)

C9_Witness ==
  /\ hist.compacted
  /\ loc.cachedThreadId = Str(<<"t0">>)
  /\ hist.lookupAge = 86400000
  /\ loc.threadId = Str(<<"t0">>)

\* C11: once the exchange of a run has returned its data and the cache write
\* has not failed, the cache file holds under the run's cache key the id of
\* the thread the exchange ran on (the cached id when one was resumed) with
\* the time of the save; while the exchange is under way, and after it has
\* failed, the cache file is as the lookup found it: no put is made.
C11_PutAfterSuccessOnly ==
  /\ (rpc = "over" /\ outcome.kind = "ok" /\ hist.failure # "cache_write") =>
       /\ threadsFile.exists
       /\ loc.cacheKey \in DOMAIN threadsFile.cache
       /\ threadsFile.cache[loc.cacheKey] = Entry(loc.threadId.s[1], now)
       /\ Truthy(loc.cachedThreadId) => loc.threadId = loc.cachedThreadId
       /\ \A k \in DOMAIN hist.cacheAtLookup.cache :
            k # loc.cacheKey => threadsFile.cache[k] = hist.cacheAtLookup.cache[k]
  /\ (pc = "runWithSchema" \/ (rpc = "over" /\ outcome.kind # "ok")) =>
       threadsFile = hist.cacheAtLookup

C11_Witness ==
  /\ rpc = "over"
  /\ outcome.kind = "ok"
  /\ loc.cachedThreadId = Str(<<"t0">>)
  /\ hist.lookupAge = 86399999
  /\ threadsFile.cache["abc123"] = Entry("t0", 86400000)

----------------------------------------------------------------------------
(* Further claims about the thread cache under two runs *)

\* C12: when two runs have each completed a saveThreadId for the same key,
\* however their loads and writes were interleaved, the cache file holds
\* under that key the thread id of the run that wrote last; and from the
\* first of the two writes on the key is never without an entry.
C12_LastWriterWins ==
  \A p \in Procs : \A q \in Procs \ {p} :
    /\ (cp[p].pc = "saved" /\ cp[q].pc = "saved" /\ cp[p].key = cp[q].key
          /\ cp[p].order > cp[q].order) =>
         /\ threadsFile.exists
         /\ cp[p].key \in DOMAIN threadsFile.cache
         /\ threadsFile.cache[cp[p].key].threadId = ThreadIdOf(p)
    /\ (cp[p].pc = "saved" /\ cp[q].pc \in {"save_loaded", "save_write", "saved"}
          /\ cp[p].key = cp[q].key) =>
         /\ threadsFile.exists
         /\ cp[p].key \in DOMAIN threadsFile.cache

C12_Witness ==
  \E p \in Procs : \E q \in Procs \ {p} :
    /\ cp[p].pc = "saved" /\ cp[q].pc = "saved"
    /\ cp[p].key = cp[q].key
    /\ cp[p].order = 2
    /\ ~cp[p].alone
    /\ threadsFile.cache[cp[p].key].threadId = ThreadIdOf(p)

----------------------------------------------------------------------------
(* Further claims about analyzeDiff *)

\* C13: in a run that has entered writeOutputs, a write has been attempted
\* for every file the requested formats ask for, whether or not an earlier
\* write failed.
C13_EveryFormatAttempted ==
  hist.emitting => hist.attempted = hist.requested

\* the errors runWithSchema throws
RunFailures ==
  {"timeout", "cancelled", "turn_failed", "agent_error", "no_response",
   "format_error", "schema_error", "stream_error"}

\* C14: when git fails or the agent exchange fails (timeout, cancellation,
\* agent, format, schema or stream error), the run has ended with exit code 1,
\* having written no report file, not written the baseline file and not
\* evaluated the gate; and from the moment the exchange has failed none of
\* these is done.
C14_FatalErrorAborts ==
  /\ hist.failure \in {"git_diff"} \cup RunFailures =>
       /\ pc = "exited"
       /\ exitCode = 1
       /\ written = <<>>
       /\ ~hist.emitting
       /\ ~hist.baselineWritten
       /\ baselineFile = NoSuchFile
       /\ ~hist.gateRan
  /\ (rpc \in {"done", "over"} /\ outcome.kind # "ok") =>
       /\ outcome.kind \in RunFailures
       /\ pc \in {"runWithSchema", "exited"}
       /\ pc = "exited" => hist.failure = outcome.kind
       /\ written = <<>>
       /\ ~hist.baselineWritten
       /\ ~hist.gateRan

C14_Witness ==
  /\ pc = "exited"
  /\ hist.failure = "timeout"
  /\ rpc = "over"
  /\ exitCode = 1

\* C15: when the diff obtained is empty (git printed nothing but blanks),
\* the run has ended with exit code 0 and no error, with no cache lookup, no
\* thread started or resumed, no exchange, no report file written, the
\* baseline file untouched and no gate evaluated.
C15_EmptyDiffIsNoOp ==
  (loc.diff # Undefined /\ ~Truthy(loc.diff)) =>
    /\ pc = "exited"
    /\ exitCode = 0
    /\ hist.failure = "none"
    /\ loc.cacheKey = ""
    /\ loc.threadId = Undefined
    /\ rpc = "idle"
    /\ exchanges = 0
    /\ written = <<>>
    /\ ~hist.emitting
    /\ ~hist.baselineWritten
    /\ baselineFile = NoSuchFile
    /\ ~hist.gateRan

C15_Witness ==
  /\ loc.diff = Str(<<>>)
  /\ pc = "exited"
  /\ exitCode = 0
  /\ hist.compacted

\* C16: a thread is started or resumed, and an exchange made, only after the
\* three environment checks have passed; when a check fails the run has ended
\* with exit code 1 and no thread and no exchange.
C16_ChecksBeforeSession ==
  /\ (loc.threadId # Undefined \/ rpc # "idle" \/ exchanges > 0) =>
       hist.checked = {"git", "codex", "key"}
  /\ hist.failure \in {"git_repo", "codex_cli", "api_key"} =>
       /\ pc = "exited"
       /\ exitCode = 1
       /\ hist.checked # {"git", "codex", "key"}
       /\ loc.cacheKey = ""
       /\ loc.threadId = Undefined
       /\ rpc = "idle"
       /\ exchanges = 0

C16_Witness ==
  /\ pc = "exited"
  /\ hist.failure = "api_key"
  /\ hist.checked = {"git", "codex"}
  /\ exitCode = 1

\* C17: once a run has written the baseline file, the file holds a JSON array
\* with no element twice whose elements are exactly the fingerprints of the
\* issues the agent reported in this run, those the baseline filter or the cap
\* took out included, and nothing of what the file held before.
C17_BaselineHoldsAllReported ==
  hist.baselineWritten =>
    /\ baselineFile.exists
    /\ baselineFile.data = <<JsonText>>
    /\ baselineFile.holds.k = "array"
    /\ LET items == baselineFile.holds.items
       IN /\ {items[i] : i \in 1..Len(items)} =
               {computeFingerprint(result.issues.items[i]) :
                  i \in 1..Len(result.issues.items)}
          /\ \A i \in 1..Len(items) : \A j \in 1..Len(items) :
               items[i] = items[j] => i = j

C17_Witness ==
  /\ hist.baselineWritten
  /\ hist.baselineRead = JsonFile(Arr(<<computeFingerprint(GoodIssue)>>))
  /\ Len(result.issues.items) = 3
  /\ Len(loc.filteredIssues) = 1
  /\ Len(baselineFile.holds.items) = 2

\* the file is missing, or its text is not JSON
Unreadable(file) == ~file.exists \/ Trim(file.data) # <<JsonText>>

\* C18: when the run is given a baseline whose file is missing or holds text
\* that cannot be parsed, the filtering step raises no error: the run goes on
\* to the next step with the empty fingerprint set and with every reported
\* issue still in the filtered list.
C18_UnreadableBaselineIsEmpty ==
  [][(pc = "filterBaseline" /\ pc' # pc) =>
       /\ pc' = "updateBaseline"
       /\ hist'.failure = "none"
       /\ (Truthy(options'.baseline) /\ Unreadable(baselineFile)) =>
            /\ loc'.baseline = {}
            /\ loc'.filteredIssues = addFingerprints(result.issues.items)]_vars

C18_Witness ==
  /\ pc = "updateBaseline"
  /\ Truthy(options.baseline)
  /\ hist.baselineRead = TextFile(<<"prose">>)
  /\ loc.baseline = {}
  /\ Len(loc.filteredIssues) = 3

----------------------------------------------------------------------------
(* filterNewIssues on drawn inputs *)

\* issues with their fingerprints; two of them share a fingerprint
FilterIssues ==
  {WithFingerprint(issue, computeFingerprint(issue)) :
     issue \in {GoodIssue, GoodIssueRespelt, MinorIssue}}

\* the fingerprints a baseline may hold
FilterFingerprints ==
  {computeFingerprint(issue) : issue \in {GoodIssue, MinorIssue, BlockerIssue}}

InitFilter ==
  /\ RunIs(NoRun)
  /\ CacheIdle
  /\ PipeIs(NoPipe)
  /\ GateIdle
  /\ \E issues \in SeqsUpTo(FilterIssues, MaxFilterIssues) :
       \E baseline \in SUBSET FilterFingerprints :
         callArgs = [issues |-> issues, baseline |-> baseline]
  /\ callResult = <<>>
  /\ called = FALSE

\* the function is applied, and applied again to its result
ApplyFilter ==
  /\ ~called
  /\ called' = TRUE
  /\ callResult' =
       LET once == filterNewIssues(callArgs.issues, callArgs.baseline)
       IN [once |-> once, twice |-> filterNewIssues(once, callArgs.baseline)]
  /\ UNCHANGED callArgs
  /\ UNCHANGED otherThanCall

NextFilter == ApplyFilter

SpecFilter == InitFilter /\ [][NextFilter]_vars

\* C19: the list filterNewIssues returns holds, for every position of the
\* input whose issue has a fingerprint outside the baseline, that very issue,
\* at the place its rank among such positions gives it, and nothing else: no
\* issue is changed, reordered, or dropped for occurring twice.
C19_FilterExact ==
  called =>
    LET issues == callArgs.issues
        kept == {i \in 1..Len(issues) : issues[i].fingerprint \notin callArgs.baseline}
        place(i) == Cardinality({k \in kept : k <= i})
    IN /\ Len(callResult.once) = Cardinality(kept)
       /\ \A i \in kept : callResult.once[place(i)] = issues[i]

C19_Witness ==
  /\ called
  /\ Len(callArgs.issues) = 3
  /\ callArgs.issues[1] = callArgs.issues[3]
  /\ callArgs.issues[2].fingerprint \in callArgs.baseline
  /\ callResult.once = <<callArgs.issues[1], callArgs.issues[3]>>

\* C20: filtering the list filterNewIssues returned once more against the
\* same baseline returns that list.
C20_FilterIdempotent ==
  called => callResult.twice = callResult.once

C20_Witness ==
  /\ called
  /\ Len(callArgs.issues) = 3
  /\ Len(callResult.once) = 2
  /\ callResult.twice = callResult.once
  /\ callArgs.baseline # {}

----------------------------------------------------------------------------
(* computeFingerprint on two drawn issues *)

\* a Fingerprintable (lines 3-11) with the fields the reviewer adds
FpIssue(file, range, type, title, text, description, rest) ==
  [k |-> "object", file |-> file, line_range |-> range, type |-> type,
   title |-> title, issue |-> text, description |-> description,
   severity |-> rest[1], why_problem |-> rest[2], fix |-> rest[3]]

FpFiles == {Str(<<"src/a.ts">>), Str(<<"src/b.ts">>)}

FpRanges ==
  {Undefined, Str(<<"0">>), Str(<<"45", "-", "52">>), Str(<<"45", " ", "-", "52", " ">>)}

FpTypes == {Undefined, Str(<<"bug">>), Str(<<"style">>)}

FpTitles == {Undefined, Str(<<"bug">>)}

FpTexts ==
  {Undefined, Str(<<"sql", " ", "injection">>), Str(<<" ", "SQL", "\n", " ", "injection">>)}

FpDescriptions == {Undefined, Str(<<"sql", " ", "injection">>)}

\* severity, why_problem and fix
FpRests ==
  { <<Str(<<"critical">>), Str(<<"why">>), Str(<<"fix">>)>>,
    <<Str(<<"minor">>), Str(<<"because">>), Undefined>> }

FpIssues ==
  {FpIssue(file, range, type, title, text, description, rest) :
     file \in FpFiles, range \in FpRanges, type \in FpTypes, title \in FpTitles,
     text \in FpTexts, description \in FpDescriptions, rest \in FpRests}

InitFingerprint ==
  /\ RunIs(NoRun)
  /\ CacheIdle
  /\ PipeIs(NoPipe)
  /\ GateIdle
  /\ \E a \in FpIssues, b \in FpIssues :
       /\ Cardinality({f \in {"file", "line_range", "type", "title", "issue",
                              "description", "severity"} : a[f] # b[f]}) <= MaxChanged
       /\ callArgs = [a |-> a, b |-> b]
  /\ callResult = <<>>
  /\ called = FALSE

\* computeFingerprint is applied to each of the two issues
ApplyFingerprint ==
  /\ ~called
  /\ called' = TRUE
  /\ callResult' = [a |-> computeFingerprint(callArgs.a),
                    b |-> computeFingerprint(callArgs.b),
                    dataA |-> FingerprintData(callArgs.a),
                    dataB |-> FingerprintData(callArgs.b)]
  /\ UNCHANGED callArgs
  /\ UNCHANGED otherThanCall

NextFingerprint == ApplyFingerprint

SpecFingerprint == InitFingerprint /\ [][NextFingerprint]_vars

\* a field counts as absent when it is undefined or the empty string
Absent(v) == v.k = "undefined" \/ v = Str(<<>>)

RECURSIVE NoBlanks(_)
\* a string with its whitespace removed
NoBlanks(s) ==
  IF s = <<>> THEN <<>>
  ELSE IF Head(s) \in {" ", "\n", "\t"} THEN NoBlanks(Tail(s))
  ELSE <<Head(s)>> \o NoBlanks(Tail(s))

\* the words of a text in lower case: what is left of it after lower-casing,
\* trimming and collapsing whitespace runs, as the list of its words
RECURSIVE WordsOf(_)
WordsOf(s) ==
  IF s = <<>> THEN <<>>
  ELSE IF Head(s) \in {" ", "\n", "\t"} THEN WordsOf(Tail(s))
  ELSE LET n == CHOOSE n \in 1..Len(s) :
                  /\ \A i \in 1..n : s[i] \notin {" ", "\n", "\t"}
                  /\ (n = Len(s) \/ s[n + 1] \in {" ", "\n", "\t"})
       IN <<[i \in 1..n |-> ToLowerCase(s[i])]>> \o WordsOf(SubSeq(s, n + 1, Len(s)))

\* the line range as the claims read it: none, or the range without whitespace
RangeKey(issue) ==
  IF Absent(issue.line_range) THEN <<"none">> ELSE <<"range", NoBlanks(issue.line_range.s)>>

\* type, or title when type is absent
TypeKey(issue) ==
  IF ~Absent(issue.type) THEN issue.type.s
  ELSE IF ~Absent(issue.title) THEN issue.title.s ELSE <<>>

\* the description text (issue, or description when issue is absent)
TextKey(issue) ==
  IF ~Absent(issue.issue) THEN WordsOf(issue.issue.s)
  ELSE IF ~Absent(issue.description) THEN WordsOf(issue.description.s) ELSE <<>>

\* the four things of an issue the fingerprint is said to depend on
KeyOf(issue) == <<issue.file, RangeKey(issue), TypeKey(issue), TextKey(issue)>>

\* C22: two issues that agree on file, on the line range with whitespace
\* removed (or both have none), on type (title when type is absent) and on
\* the description in lower case, trimmed and with whitespace runs
\* collapsed, get the same fingerprint, whatever their severity, why_problem
\* and fix are.
C22_SameKeySameFingerprint ==
  (called /\ KeyOf(callArgs.a) = KeyOf(callArgs.b)) => callResult.a = callResult.b

C22_Witness ==
  /\ called
  /\ callArgs.a.line_range = Str(<<"45", "-", "52">>)
  /\ callArgs.b.line_range = Str(<<"45", " ", "-", "52", " ">>)
  /\ callArgs.a.issue = Str(<<" ", "SQL", "\n", " ", "injection">>)
  /\ callArgs.b.issue = callArgs.a.issue
  /\ callArgs.a.severity # callArgs.b.severity
  /\ callArgs.a.fix # callArgs.b.fix
  /\ callResult.a = callResult.b

\* C23: two issues that differ in exactly one of file, line range, type and
\* description text (other than by whitespace and letter case) never get
\* the same string to hash.
C23_OneChangeChangesData ==
  (called /\ Cardinality({i \in 1..4 : KeyOf(callArgs.a)[i] # KeyOf(callArgs.b)[i]}) = 1)
    => callResult.dataA # callResult.dataB

----------------------------------------------------------------------------
(* The SARIF formatter (part_001 lines 315-407) *)

\* the tokens that are runs of decimal digits, with parseInt(token, 10)
DigitRuns == {"0", "7", "45", "52"}

ParseInt(tok) ==
  CASE tok = "0" -> 0
    [] tok = "7" -> 7
    [] tok = "45" -> 45
    [] tok = "52" -> 52

\* String.prototype.toUpperCase on the tokens the model uses
ToUpperCase(tok) ==
  CASE tok = "security" -> "SECURITY"
    [] tok = "perf" -> "PERF"
    [] tok = "hit" -> "HIT"
    [] OTHER -> tok

\* replace(/-/g, by)
ReplaceDashes(s, by) == [i \in 1..Len(s) |-> IF s[i] = "-" THEN by ELSE s[i]]

severityToLevelHighAsError(severity) ==
  LET s == LowerStr(severity.s)
  IN IF s = <<"blocker">> \/ s = <<"critical">> \/ s = <<"high">> THEN "error"
     ELSE IF s = <<"major">> THEN "warning"
     ELSE "note"

\* lines 315-320
severityToLevel(severity) ==
  LET s == LowerStr(severity.s)
  IN IF s = <<"blocker">> \/ s = <<"critical">> THEN "error"
     ELSE IF s = <<"major">> \/ s = <<"high">> THEN "warning"
     ELSE "note"

\* lines 322-332: the first run of digits of the string is the start; the end
\* is the run of digits right after a dash that follows it, if there is one
parseLineRange(lineRange) ==
  IF ~Truthy(lineRange) THEN [start |-> Num(1), end |-> Undefined]
  ELSE LET s == lineRange.s
           runs == {i \in 1..Len(s) : s[i] \in DigitRuns}
       IN IF runs = {} THEN [start |-> Num(1), end |-> Undefined]
          ELSE LET i == CHOOSE i \in runs : \A j \in runs : i <= j
                   match2 == IF i + 2 <= Len(s) /\ s[i + 1] = "-" /\ s[i + 2] \in DigitRuns
                             THEN Str(<<s[i + 2]>>)
                             ELSE Undefined
               IN [start |-> Num(ParseInt(s[i])),
                   end |-> IF Truthy(match2) THEN Num(ParseInt(match2.s[1]))
                           ELSE Undefined]

\* line 343
RuleIdOf(issue) == <<"CODEX.">> \o ReplaceDashes([i \in 1..Len(issue.type.s) |-> ToUpperCase(issue.type.s[i])], "_")

\* lines 347-361
SarifRuleOf(issue) ==
  [id |-> RuleIdOf(issue),
   shortDescription |-> [text |-> ReplaceDashes(issue.type.s, " ")],
   fullDescription |-> [text |-> issue.why_problem],
   help |-> [text |-> issue.fix],
   properties |-> [tags |-> <<issue.type, issue.severity>>]]

\* lines 380-383: endLine is present only when end is truthy
RegionOf(range) ==
  IF Truthy(range.end)
  THEN [startLine |-> range.start, endLine |-> range.end]
  ELSE [startLine |-> range.start]

\* lines 365-387
SarifResultOf(issue) ==
  [ruleId |-> RuleIdOf(issue),
   level |-> severityToLevel(issue.severity),
   message |-> [text |-> issue.issue],
   locations |-> << [physicalLocation |->
                       [artifactLocation |-> [uri |-> issue.file],
                        region |-> RegionOf(parseLineRange(issue.line_range))]] >>]

\* lines 339-388: the rules in the order their first issue comes
RECURSIVE SarifRules(_)
SarifRules(issues) ==
  IF issues = <<>> THEN <<>>
  ELSE LET before == SarifRules(SubSeq(issues, 1, Len(issues) - 1))
           last == issues[Len(issues)]
       IN IF \E i \in 1..Len(before) : before[i].id = RuleIdOf(last)
          THEN before
          ELSE Append(before, SarifRuleOf(last))

\* lines 334-407
convertToSARIF(issues, toolVersion) ==
  [version |-> <<"2.1.0">>,
   schema |-> <<"https://json.schemastore.org/sarif-2.1.0.json">>,
   runs |-> << [tool |-> [driver |-> [name |-> <<"Codex Code Reviewer">>,
                                      version |-> toolVersion,
                                      informationUri |->
                                        <<"https://github.com/haasonsaas/codex-code-reviewer">>,
                                      rules |-> SarifRules(issues)]],
                results |-> [i \in 1..Len(issues) |-> SarifResultOf(issues[i])]] >>]

\* line ranges an agent may write: none, empty, N-M, N, and others
SarifRanges ==
  { Undefined, Str(<<>>),
    Str(<<"45", "-", "52">>), Str(<<"7">>),
    Str(<<"lines", " ", "45", "-", "52">>), Str(<<"45", " ", "-", " ", "52">>),
    Str(<<"45", "-">>), Str(<<"7", "-", "0">>), Str(<<"n/a">>) }

SarifSeverities ==
  {Str(<<w>>) : w \in {"blocker", "critical", "major", "high", "minor", "info", "CRITICAL"}}

SarifIssue(range, severity, type) ==
  MkIssue(Str(<<"src/auth.ts">>), range, type, severity, Str(<<"sql", " ", "injection">>))

\* every range with the severity critical, every severity with the range 45-52
SarifIssues ==
  {SarifIssue(range, Str(<<"critical">>), Str(<<"security">>)) : range \in SarifRanges}
    \cup {SarifIssue(Str(<<"45", "-", "52">>), severity, Str(<<"perf", "-", "hit">>)) :
            severity \in SarifSeverities}

InitSarif ==
  /\ RunIs(NoRun)
  /\ CacheIdle
  /\ PipeIs(NoPipe)
  /\ GateIdle
  /\ \E issues \in SeqsUpTo(SarifIssues, MaxSarifIssues) : callArgs = [issues |-> issues]
  /\ callResult = <<>>
  /\ called = FALSE

ApplySarif ==
  /\ ~called
  /\ called' = TRUE
  /\ callResult' = convertToSARIF(callArgs.issues, <<"1.0.0">>)
  /\ UNCHANGED callArgs
  /\ UNCHANGED otherThanCall

NextSarif == ApplySarif

SpecSarif == InitSarif /\ [][NextSarif]_vars

\* the level the documentation gives a severity, read without regard to
\* letter case
LevelOf(severity) ==
  CASE LowerStr(severity.s) \in {<<"blocker">>, <<"critical">>} -> "error"
    [] LowerStr(severity.s) \in {<<"major">>, <<"high">>} -> "warning"
    [] OTHER -> "note"

\* C25: convertToSARIF returns one result per issue, the i-th result being
\* that of the i-th issue (its file, its text), with level error for blocker
\* and critical, warning for major and high, note for any other severity.
C25_OneResultPerIssue ==
  called =>
    LET results == callResult.runs[1].results
    IN /\ Len(results) = Len(callArgs.issues)
       /\ \A i \in 1..Len(results) :
            /\ results[i].level = LevelOf(callArgs.issues[i].severity)
            /\ results[i].message.text = callArgs.issues[i].issue
            /\ Len(results[i].locations) = 1
            /\ results[i].locations[1].physicalLocation.artifactLocation.uri
                 = callArgs.issues[i].file

C25_Witness ==
  /\ called
  /\ Len(callArgs.issues) = 1
  /\ callArgs.issues[1].severity = Str(<<"critical">>)
  /\ callArgs.issues[1].line_range = Str(<<"45", "-", "52">>)
  /\ Len(callResult.runs[1].results) = 1
  /\ callResult.runs[1].results[1].level = "error"
  /\ callResult.runs[1].results[1].locations[1].physicalLocation.region
       = [startLine |-> Num(45), endLine |-> Num(52)]

\* a line range of the form N-M, or of the form N
IsRangeNM(s) == Len(s) = 3 /\ s[1] \in DigitRuns /\ s[2] = "-" /\ s[3] \in DigitRuns
IsRangeN(s) == Len(s) = 1 /\ s[1] \in DigitRuns

\* C26: the region of the result of an issue is line 1 alone when the issue
\* has no line range, lines N to M for the range N-M, line N alone for the
\* range N, and line 1 alone for every other range.
C26_RegionFromRange ==
  called =>
    \A i \in 1..Len(callArgs.issues) :
      LET range == callArgs.issues[i].line_range
          region == callResult.runs[1].results[i].locations[1].physicalLocation.region
      IN region =
           IF range.k = "undefined" \/ range = Str(<<>>) THEN [startLine |-> Num(1)]
           ELSE IF IsRangeNM(range.s)
           THEN [startLine |-> Num(ParseInt(range.s[1])), endLine |-> Num(ParseInt(range.s[3]))]
           ELSE IF IsRangeN(range.s) THEN [startLine |-> Num(ParseInt(range.s[1]))]
           ELSE [startLine |-> Num(1)]

----------------------------------------------------------------------------
(* chunkDiffByFile (part_002 lines 24-53) *)

RECURSIVE SplitNL(_)
\* String.prototype.split("\n")
SplitNL(s) ==
  IF \E i \in 1..Len(s) : s[i] = "\n"
  THEN LET i == CHOOSE i \in 1..Len(s) : s[i] = "\n" /\ \A j \in 1..(i - 1) : s[j] # "\n"
       IN <<SubSeq(s, 1, i - 1)>> \o SplitNL(SubSeq(s, i + 1, Len(s)))
  ELSE <<s>>

\* line 32: line.startsWith("diff --git")
IsFileHeader(line) == line # <<>> /\ line[1] = "diff --git"

\* lines 39-40: the second group of /diff --git a\/(.*?) b\/(.*)/, null
\* when the line does not match
HeaderFile(line) ==
  LET ends == {j \in 4..(Len(line) - 1) : line[j] = " " /\ line[j + 1] = "b/"}
  IN IF Len(line) >= 3 /\ line[2] = " " /\ line[3] = "a/" /\ ends # {}
     THEN LET j == CHOOSE j \in ends : \A k \in ends : j <= k
          IN Str(SubSeq(line, j + 2, Len(line)))
     ELSE JNull

\* Map.prototype.set on a map kept as the sequence of its entries
MapSet(map, key, value) ==
  IF \E i \in 1..Len(map) : map[i].key = key
  THEN [i \in 1..Len(map) |-> IF map[i].key = key THEN [key |-> key, value |-> value]
                               ELSE map[i]]
  ELSE Append(map, [key |-> key, value |-> value])

\* lines 34-36 and 48-50
SaveChunk(st) ==
  IF Truthy(st.currentFile) /\ Len(st.currentChunk) > 0
  THEN [st EXCEPT !.fileChunks = MapSet(@, st.currentFile.s, JoinNL(st.currentChunk))]
  ELSE st

\* lines 31-45: the loop from line i on
RECURSIVE ChunkLoop(_, _, _)
ChunkLoop(lines, i, st) ==
  IF i > Len(lines) THEN st
  ELSE LET line == lines[i]
       IN IF IsFileHeader(line)
          THEN ChunkLoop(lines, i + 1,
                         [SaveChunk(st) EXCEPT !.currentFile = HeaderFile(line),
                                               !.currentChunk = <<line>>])
          ELSE IF Truthy(st.currentFile)
          THEN ChunkLoop(lines, i + 1, [st EXCEPT !.currentChunk = Append(@, line)])
          ELSE ChunkLoop(lines, i + 1, st)

\* lines 24-53
chunkDiffByFile(diff) ==
  SaveChunk(ChunkLoop(SplitNL(diff), 1,
                      [fileChunks |-> <<>>, currentFile |-> JNull,
                       currentChunk |-> <<>>])).fileChunks

\* the token standing for a double quote
DQuote == "<dquote>"

\* the header git writes for a file
FileHeader(old, new) == <<"diff --git", " ", "a/", old, " ", "b/", new>>

\* lines of a diff: headers of two files and of a renamed one, the header git
\* writes for a path it quotes, a hunk header, a changed line, and a line of
\* the commit message git show puts first
DiffLines ==
  { FileHeader("x.ts", "x.ts"), FileHeader("y.ts", "y.ts"), FileHeader("x.ts", "z.ts"),
    <<"diff --git", " ", DQuote, "a/", "caf.ts", DQuote, " ", DQuote, "b/", "caf.ts", DQuote>>,
    <<"@@ -1 +1 @@">>, <<"+", "line">>, <<"commit 1f2e">> }

InitChunk ==
  /\ RunIs(NoRun)
  /\ CacheIdle
  /\ PipeIs(NoPipe)
  /\ GateIdle
  /\ \E lines \in SeqsUpTo(DiffLines, MaxDiffLines) : callArgs = [diff |-> JoinNL(lines)]
  /\ callResult = <<>>
  /\ called = FALSE

ApplyChunk ==
  /\ ~called
  /\ called' = TRUE
  /\ callResult' = chunkDiffByFile(callArgs.diff)
  /\ UNCHANGED callArgs
  /\ UNCHANGED otherThanCall

NextChunk == ApplyChunk

SpecChunk == InitChunk /\ [][NextChunk]_vars

\* C27: the map chunkDiffByFile returns has one entry per file header of the
\* diff, and its chunks put one after the other, in order, are the lines
\* of the diff from the first file header on: every such line is in exactly
\* one chunk, and the lines before the first header are in none.
C27_ChunksPartitionTheDiff ==
  called =>
    LET lines == SplitNL(callArgs.diff)
        headers == {i \in 1..Len(lines) : IsFileHeader(lines[i])}
    IN IF headers = {} THEN callResult = <<>>
       ELSE LET first == CHOOSE i \in headers : \A j \in headers : i <= j
            IN /\ Len(callResult) = Cardinality(headers)
               /\ JoinNL([i \in 1..Len(callResult) |-> callResult[i].value])
                    = JoinNL(SubSeq(lines, first, Len(lines)))

----------------------------------------------------------------------------
(* The thread cache: reads and the missing file *)

\* C28: no step of a getThreadId call, neither the load of the store nor the
\* lookup that follows, changes the store, whether the entry looked up is
\* there, expired or absent.
C28_LookupLeavesStore ==
  [][(\E p \in Procs : cp'[p].pc # cp[p].pc /\ cp'[p].pc \in {"get_loaded", "got"})
       => threadsFile' = threadsFile]_vars

C28_Witness ==
  \E p \in Procs :
    /\ cp[p].pc = "got"
    /\ cp[p].result = JNull
    /\ cp[p].key \in DOMAIN threadsFile.cache
    /\ now - threadsFile.cache[cp[p].key].lastUsed > maxAge
    /\ \A q \in Procs \ {p} : cp[q].pc = "idle"

\* C29: a call that finds no cache file goes on as with an empty cache:
\* getThreadId returns null, and the file that clearOldThreads or saveThreadId
\* then writes (as long as no later write has replaced it) holds no entry,
\* respectively the new entry alone.
C29_MissingFileIsEmptyCache ==
  \A p \in Procs :
    cp[p].missing =>
      /\ cp[p].cache = EmptyCache
      /\ cp[p].pc = "got" => cp[p].result = JNull
      /\ (cp[p].pc = "cleared" /\ cp[p].order = WritesDone)
           => threadsFile = [exists |-> TRUE, cache |-> EmptyCache]
      /\ (cp[p].pc = "saved" /\ cp[p].order = WritesDone)
           => /\ threadsFile.exists
              /\ DOMAIN threadsFile.cache = {cp[p].key}
              /\ threadsFile.cache[cp[p].key] = Entry(cp[p].id, cp[p].at)

C29_Witness ==
  /\ cp[1].missing /\ cp[1].pc = "saved" /\ cp[1].order = 1
  /\ cp[2].missing /\ cp[2].pc = "got" /\ cp[2].result = JNull
  /\ threadsFile.exists
  /\ cp[2].key \in DOMAIN threadsFile.cache

----------------------------------------------------------------------------
(* analyzeDiff: the reports, the gate, the baseline and the cap *)

\* the artifact a format names, none for a format the tool does not know
KindOf(format) ==
  CASE LowerStr(format.s) = <<"json">> -> "json"
    [] LowerStr(format.s) = <<"sarif">> -> "sarif"
    [] LowerStr(format.s) \in {<<"markdown">>, <<"md">>} -> "markdown"
    [] OTHER -> "none"

\* the formats of the run: the option, or json when none is given
RequestedFormats == Or(options.format, Arr(<<Str(<<"json">>)>>)).items

C34_DistinctFormatsDistinctPaths ==
  (hist.emitting /\ hist.failure = "none") =>
    \A i, j \in 1..Len(written) :
      written[i].kind # written[j].kind => written[i].path # written[j].path

\* C35: in a run that filtered against the baseline and then wrote it, the
\* issues that came out of the filter are the reported issues absent from the
\* baseline as it was before the write; and filtering the same reported
\* issues against the file the run has written, as the next run with the same
\* answer and options does, leaves no issue.
C35_FilterReadsPreviousBaseline ==
  hist.baselineWritten =>
    /\ pc = "capIssues" => loc.filteredIssues = addFingerprints(NewIssues)
    /\ filterNewIssues(addFingerprints(result.issues.items), loadBaseline(baselineFile))
         = <<>>

C35_Witness ==
  /\ pc = "capIssues"
  /\ hist.baselineWritten
  /\ hist.baselineRead = JsonFile(Arr(<<computeFingerprint(GoodIssue)>>))
  /\ hist.baselineRead # baselineFile
  /\ Len(result.issues.items) = 3
  /\ Len(loc.filteredIssues) = 1


----------------------------------------------------------------------------
(* The thread cache: a compaction and a save by two runs *)

\* the entry run q's saveThreadId wrote is what the cache file holds under
\* q's key
HoldsEntryOf(q) ==
  /\ threadsFile.exists
  /\ cp[q].key \in DOMAIN threadsFile.cache
  /\ threadsFile.cache[cp[q].key] = Entry(cp[q].id, cp[q].at)

\* C36 as claimed: once one run's clearOldThreads and another run's
\* saveThreadId have both completed, in whatever order their loads and writes
\* fell, the saved entry is in the cache file as long as it is younger than
\* 24 hours.
C36_SavedEntrySurvivesCompaction ==
  \A p \in Procs : \A q \in Procs \ {p} :
    (cp[p].pc = "cleared" /\ cp[q].pc = "saved" /\ now - cp[q].at < maxAge) =>
      HoldsEntryOf(q)

\* C36: once one run's clearOldThreads and another run's saveThreadId have
\* both completed, the saved entry, while younger than 24 hours, is in the
\* cache file when the save wrote after the compaction or before the
\* compaction's load; when the save wrote between the compaction's load and
\* its write, the file does not hold the saved entry.
C36_CompactionKeepsLoadedYoung ==
  \A p \in Procs : \A q \in Procs \ {p} :
    (cp[p].pc = "cleared" /\ cp[q].pc = "saved") =>
      /\ (now - cp[q].at < maxAge /\ (cp[q].order > cp[p].order \/ cp[p].alone)) =>
           HoldsEntryOf(q)
      /\ (cp[p].order > cp[q].order /\ ~cp[p].alone) => ~HoldsEntryOf(q)

C36_Witness ==
  \E p \in Procs : \E q \in Procs \ {p} :
    /\ cp[p].pc = "cleared" /\ cp[q].pc = "saved"
    /\ cp[p].order = 2 /\ cp[p].alone
    /\ cp[q].at > 0 /\ now - cp[q].at < maxAge
    /\ \E k \in DOMAIN cp[p].cache : k \notin DOMAIN threadsFile.cache
    /\ HoldsEntryOf(q)

\* C37: the write that ends a saveThreadId leaves in the cache file every
\* entry of another key that the file held when the call loaded it, unchanged,
\* and adds no key but its own, whatever another run wrote since the load.
C37_SaveKeepsOtherKeys ==
  [][\A p \in Procs :
       (cp[p].pc = "save_write" /\ cp'[p].pc = "saved") =>
         LET atStart == cp[p].cache
             atEnd == threadsFile'.cache
         IN /\ threadsFile'.exists
            /\ \A k \in DOMAIN atStart \ {cp[p].key} :
                 k \in DOMAIN atEnd /\ atEnd[k] = atStart[k]
            /\ DOMAIN atEnd \ {cp[p].key} \subseteq DOMAIN atStart]_vars

C37_Witness ==
  \E p \in Procs : \E q \in Procs \ {p} :
    /\ cp[p].pc = "saved" /\ cp[q].pc = "saved"
    /\ cp[p].key # cp[q].key
    /\ cp[p].order = 2 /\ ~cp[p].alone
    /\ cp[q].key \in DOMAIN cp[p].cache
    /\ cp[p].key \in DOMAIN threadsFile.cache
    /\ cp[q].key \in DOMAIN threadsFile.cache
    /\ threadsFile.cache[cp[q].key] = cp[p].cache[cp[q].key]

----------------------------------------------------------------------------
(* analyzeDiff: the cap on the number of issues *)

\* C38: when options.maxIssues is a number, the step of lines 127-133 leaves
\* as the issues of the final result the first maxIssues issues of the
\* baseline-filtered list (all of them when there are fewer), in their order,
\* and so never more than maxIssues issues.
C38_CapIsPrefixOfFiltered ==
  [][(pc = "capIssues" /\ pc' = "writeOutputs" /\ options'.maxIssues.k = "number") =>
       LET maxIssues == options'.maxIssues.n
           before == loc.filteredIssues
           after == loc'.finalResult.issues.items
           length == IF Len(before) < maxIssues THEN Len(before) ELSE maxIssues
       IN /\ Len(after) <= maxIssues
          /\ after = SubSeq(before, 1, length)]_vars


====
